---- MODULE Spec2Model ----
(***************************************************************************)
(* Credit card manager: the server's account record store (SQLite table    *)
(* `cards`), the sync endpoint and the REST endpoints that write the table.*)
(* A row keeps the columns that decide merging: id (PRIMARY KEY), sync_id  *)
(* (UNIQUE), is_deleted, created_at, updated_at, and `name` standing for   *)
(* the content columns, which upsertCard always writes together.           *)
(***************************************************************************)
EXTENDS Integers, Sequences, FiniteSets, TLC

(* ------------------------------ bounds ------------------------------- *)
\* the server clock (Unix seconds) and the client timestamps range over 0..MaxTime
MaxTime == 1
\* most cards in the body of one sync request
MaxBatch == 2
\* most uuid.New() calls in one behaviour
MaxUuid == 2
\* most work accepted in one behaviour: a sync request counts once for each
\* card of its body (once when it has none), a REST request once
MaxOps == 3
\* most cards in a list given to the matcher
MaxAccts == 2
\* the greatest UID in the mailbox
MaxUid == 3
\* how far past a cap of the code the inputs of a function go
MaxOver == 30
\* most MIME parts of a message
MaxParts == 3
\* the most messages one run fetches
FetchCap == 100
\* the n handleFetchBills passes to truncate
ExcerptCap == 2000

Times == 0..MaxTime
\* the watermarks a request body carries: an int64, below every timestamp too
Marks == (0 - 1)..MaxTime
\* the goroutines serving POST /sync, one per client device
Handlers == {"A", "B"}
\* the device whose deliveries are followed
Observer == "A"
\* (Dexie auto-increment key, syncId) of the card each device holds: the
\* devices number their cards alike and name them apart
KeysOf == [A |-> { <<"1", "s1">> }, B |-> { <<"1", "s2">> }]
\* a card posted without syncId
BareKeys == { <<"2", "">> }
ClientKeys == KeysOf["A"] \cup KeysOf["B"] \cup BareKeys
\* content columns and is_deleted of the cards the devices send
Contents == { <<"a", FALSE>>, <<"b", TRUE>> }
UuidNames == <<"u1", "u2", "u3", "u4", "u5", "u6">>
NoCard == [id |-> "none"]
NoBill == [uid |-> 0]
\* Card{}
ZeroCard ==
    [id |-> "", syncId |-> "", name |-> "", lastFour |-> << >>,
     cardholderName |-> << >>, isDeleted |-> FALSE, createdAt |-> 0,
     updatedAt |-> 0]
NoMatch == [card |-> ZeroCard, matchedBy |-> "", confidence |-> "", found |-> FALSE]
NoStatement == [uid |-> 0]
NoConfig == [id |-> 0]
NoAnswer == [asked |-> FALSE]
NoRange == [from |-> 0, to |-> 0]
NoMsg == [uid |-> 0]
NoKey == [password |-> "", salt |-> 0]
NoSalt == 0
NoOut == [op |-> "none", ok |-> TRUE, error |-> "", text |-> "", key |-> NoKey]
NoDate == <<0, 0, 0, 0>>
NoInfo == [pc |-> "idle", billingDay |-> 0, paymentDueDay |-> 0,
           referenceDate |-> NoDate, clock |-> NoDate,
           nextPaymentDueDate |-> NoDate, daysUntilPayment |-> 0]
NoReply == [cards |-> << >>, serverTime |-> 0]

VARIABLES
    cards,       \* the rows of table cards
    uuidCount,   \* uuids handed out so far
    now,         \* time.Now().Unix()
    ops,         \* work accepted so far
    pc,          \* per handler: where syncCards is
    size,        \* per handler: len(req.Cards)
    left,        \* per handler: cards of req.Cards not yet ranged over
    since,       \* per handler: req.LastSyncAt, as getCardsSince is given it
    serverTime,  \* per handler: the local serverTime
    card,        \* per handler: the loop variable card, as passed to upsertCard
    resp,        \* per handler: serverCards, the delta of the response
    err,         \* per handler: ShouldBindJSON returned an error
    lastIn,      \* the card of the latest statement on the table, if a sync upsert
    repeat,      \* that card is the card of the statement before it too
    hi,          \* per syncId: largest updatedAt stored or offered by a sync
    top,         \* per syncId: the contents stored or offered with updatedAt hi
    lastSyncAt,  \* per device: SyncService.lastSyncAt
    began,       \* the observer has started a sync
    owed,        \* syncIds whose stored version the observer has not been sent
    due,         \* those of owed committed before the observer's sync began
    acc,         \* per handler: the row versions its call's upserts have written
    pb,          \* the parsedBill given to matchBillToCard
    accts,       \* the cards given to matchBillToCard
    mr,          \* the matchResult returned
    stmts,       \* the rows of table bill_statements
    bpc,         \* where handleFetchBills is
    inbox,       \* bills not yet ranged over: the UIDs of the fetched messages
    saved,       \* handleFetchBills' counter saved
    skipped,     \* handleFetchBills' counter skipped
    bs,          \* the BillStatement last given to saveBillStatement
    added,       \* rows the run has added to bill_statements
    session,     \* the IMAP client of fetchEmailsFromIMAP
    broken,      \* c.Fetch has sent an error on done
    emailConfig, \* the row of table email_config
    cresp,       \* the data of the latest answer to GET /email-config
    mbox,        \* mbox.Messages
    seqset,      \* the sequence range given to c.Fetch
    parts,       \* the MIME parts mr.NextPart() gives, in order
    total,       \* len(bills) of the run of handleFetchBills
    msg,         \* the imap.Message given to parseIMAPMessage
    parsed,      \* what parseIMAPMessage returned: nil or a record
    local,       \* per device: the records of db.cards (Dexie)
    nextId,      \* per device: keys db.cards has handed out
    isSyncing,   \* per device: SyncService.isSyncing
    cpc,         \* per device: where the call of sync() in flight is
    reply,       \* per device: result.data of the response being merged
    found,       \* per device: localCard, as mergeServerCard read it
    ret,         \* per device: what the latest call of sync() returned
    key,         \* EncryptionManager.key
    salt,        \* EncryptionManager.salt
    vault,       \* the salt and password hash pairs initialize has returned
    out,         \* what the latest call on the EncryptionManager gave
    binfo,       \* the call of getBillingInfo: arguments, clock, result
    quiet        \* the devices whose sync completed since the last edit

hvars == <<ops, pc, size, left, since, serverTime, card, resp, err>>
gvars == <<lastIn, repeat>>
rvars == <<hi, top>>
cvars == <<lastSyncAt, began, owed, due>>
avars == <<acc>>
mvars == <<pb, accts, mr>>
bvars == <<stmts, bpc, inbox, saved, skipped, bs, added, total>>
svars == <<session, broken>>
kvars == <<emailConfig, cresp>>
xvars == <<mbox, seqset, parts>>
evars == <<msg, parsed>>
dvars == <<local, nextId, isSyncing, cpc, reply, found, ret>>
uvars == <<key, salt, vault, out, binfo, quiet>>
nvars == <<evars, dvars, uvars>>
ovars == <<svars, kvars, xvars, nvars>>
vars == <<cards, uuidCount, now, ops, pc, size, left, since, serverTime, card,
          resp, err, lastIn, repeat, hi, top, lastSyncAt, began, owed, due, acc,
          pb, accts, mr, stmts, bpc, inbox, saved, skipped, bs, added, session,
          broken, emailConfig, cresp, mbox, seqset, parts, total, msg, parsed,
          local, nextId, isSyncing, cpc, reply, found, ret, key, salt, vault,
          out, binfo, quiet>>

(* ------------------------------ the table ---------------------------- *)
\* a card of a request body, as ShouldBindJSON fills it
InCards ==
    { [id |-> k[1], syncId |-> k[2], name |-> c[1], isDeleted |-> c[2],
       createdAt |-> u, updatedAt |-> u] :
        k \in ClientKeys, c \in Contents, u \in Times }

\* the card ShouldBindJSON fills from a body without name, bank or any other
\* field: Card{}, which the binding accepts
BlankCards ==
    { [id |-> "", syncId |-> "", name |-> "", isDeleted |-> FALSE,
       createdAt |-> 0, updatedAt |-> 0] }

\* the cards device h sends: SyncService.sync gives every card a syncId first
CardsOf(h) == { c \in InCards : <<c.id, c.syncId>> \in KeysOf[h] }

\* the cards of the requests that race for one record: the card s1 and the
\* cards without syncId
RaceCards == { c \in InCards : <<c.id, c.syncId>> \in KeysOf["A"] \cup BareKeys }

Max(a, b) == IF a > b THEN a ELSE b

HasSync(tbl, s) == \E r \in tbl : r.syncId = s
HasId(tbl, i) == \E r \in tbl : r.id = i
RowOf(tbl, s) == CHOOSE r \in tbl : r.syncId = s

\* the DO UPDATE SET list: every column but id, sync_id and created_at
Overwrite(r, x) ==
    [f \in DOMAIN r |->
        IF f \in {"id", "syncId", "createdAt"} THEN r[f] ELSE x[f]]

\* upsertCard on a table whose only key is sync_id: a clash of ids is not seen
upsertCardNoKey(tbl, x) ==
    IF HasSync(tbl, x.syncId)
    THEN LET r == RowOf(tbl, x.syncId) IN
         IF x.updatedAt > r.updatedAt
         THEN (tbl \ {r}) \cup {Overwrite(r, x)}
         ELSE tbl
    ELSE tbl \cup {x}

\* upsertCard with WHERE excluded.updated_at >= cards.updated_at
upsertCardTie(tbl, x) ==
    IF HasSync(tbl, x.syncId)
    THEN LET r == RowOf(tbl, x.syncId) IN
         IF x.updatedAt >= r.updatedAt
         THEN (tbl \ {r}) \cup {Overwrite(r, x)}
         ELSE tbl
    ELSE IF HasId(tbl, x.id) THEN tbl
    ELSE tbl \cup {x}

\* upsertCard without the WHERE of DO UPDATE
upsertCardBlind(tbl, x) ==
    IF HasSync(tbl, x.syncId)
    THEN LET r == RowOf(tbl, x.syncId) IN (tbl \ {r}) \cup {Overwrite(r, x)}
    ELSE IF HasId(tbl, x.id) THEN tbl
    ELSE tbl \cup {x}

\* INSERT ... ON CONFLICT(sync_id) DO UPDATE ... WHERE excluded.updated_at >
\* cards.updated_at.  SQLite tests the conflict target first; a clash on the
\* PRIMARY KEY id with another row aborts the statement.
upsertCard(tbl, x) ==
    IF HasSync(tbl, x.syncId)
    THEN LET r == RowOf(tbl, x.syncId) IN
         IF x.updatedAt > r.updatedAt
         THEN (tbl \ {r}) \cup {Overwrite(r, x)}
         ELSE tbl
    ELSE IF HasId(tbl, x.id) THEN tbl
    ELSE tbl \cup {x}

\* plain INSERT with is_deleted = 0
insertCard(tbl, x) ==
    IF HasSync(tbl, x.syncId) \/ HasId(tbl, x.id) THEN tbl
    ELSE tbl \cup {[x EXCEPT !.isDeleted = FALSE]}

\* the sequences that list S by updatedAt descending (ties in any order)
RECURSIVE DescOrders(_)
DescOrders(S) ==
    IF S = {} THEN {<< >>}
    ELSE UNION { { <<x>> \o p : p \in DescOrders(S \ {x}) } :
                 x \in { y \in S : \A z \in S : y.updatedAt >= z.updatedAt } }

\* getCardsSince with the filter of getCards: soft-deleted rows left out
getCardsSinceLive(tbl, t) ==
    DescOrders({ r \in tbl : r.updatedAt > t /\ ~r.isDeleted })

\* getCardsSince with WHERE updated_at >= ?
getCardsSinceFrom(tbl, t) == DescOrders({ r \in tbl : r.updatedAt >= t })

\* SELECT ... WHERE updated_at > ? ORDER BY updated_at DESC
getCardsSince(tbl, t) == DescOrders({ r \in tbl : r.updatedAt > t })

\* uuid.New().String()
NewUuid(k) == UuidNames[k + 1]

Range(f) == { f[i] : i \in DOMAIN f }
SyncIdsOf(tbl) == { r.syncId : r \in tbl }
AllSyncIds == { k[2] : k \in ClientKeys } \cup Range(UuidNames)

\* the card one loop iteration passes to upsertCard
Effective(c, k) == IF c.syncId = "" THEN [c EXCEPT !.syncId = NewUuid(k)] ELSE c

(* ------------------- statements on the table ------------------------- *)
\* the body of the loop over req.Cards in syncCards
LoopBody(c) ==
    /\ c.syncId = "" => uuidCount < MaxUuid
    /\ cards' = upsertCard(cards, Effective(c, uuidCount))
    /\ uuidCount' = IF c.syncId = "" THEN uuidCount + 1 ELSE uuidCount

\* POST /cards
createCard(c) ==
    /\ uuidCount + 2 <= MaxUuid
    /\ cards' = insertCard(cards,
                    [c EXCEPT !.id = NewUuid(uuidCount),
                              !.syncId = NewUuid(uuidCount + 1),
                              !.createdAt = now, !.updatedAt = now])
    /\ uuidCount' = uuidCount + 2

\* PUT /cards/:id
updateCard(id, c) ==
    /\ cards' = upsertCard(cards, [c EXCEPT !.id = id, !.updatedAt = now])
    /\ UNCHANGED uuidCount

\* a DELETE that removes the rows instead of flagging them
deleteCardHard(id) ==
    /\ cards' = { r \in cards : ~(r.id = id \/ r.syncId = id) }
    /\ UNCHANGED uuidCount

\* DELETE /cards/:id
deleteCard(id) ==
    /\ cards' = { IF r.id = id \/ r.syncId = id
                  THEN [r EXCEPT !.isDeleted = TRUE, !.updatedAt = now]
                  ELSE r : r \in cards }
    /\ UNCHANGED uuidCount

\* the server clock advances
Tick ==
    /\ now < MaxTime
    /\ now' = now + 1

\* the row ids a PUT path carries, and the ids and syncIds a DELETE path carries
RowIds == { r.id : r \in cards }
PathIds == RowIds \cup SyncIdsOf(cards)

(* ------------------------- the sync handler -------------------------- *)
\* a request that costs w is accepted
Budget(w) ==
    /\ ops + w <= MaxOps
    /\ ops' = ops + w

\* syncCards up to the loop: a body of n cards is bound, serverTime is taken
SyncBegin(h, n) ==
    /\ pc[h] = "idle"
    /\ Budget(Max(1, n))
    /\ pc' = [pc EXCEPT ![h] = "upsert"]
    /\ size' = [size EXCEPT ![h] = n]
    /\ left' = [left EXCEPT ![h] = n]
    /\ serverTime' = [serverTime EXCEPT ![h] = now]
    /\ UNCHANGED <<cards, uuidCount, now, since, card, resp, err>>

\* syncCards going on to the loop with whatever the decoder had filled
AfterBindErrorIgnored == "upsert"

\* where syncCards goes when ShouldBindJSON returns an error: it answers 400
\* and returns
AfterBindError == "reject"

\* syncCards on a body that ShouldBindJSON rejects; the decoder had filled n
\* cards of req.Cards when it met the error
SyncReject(h, n) ==
    /\ pc[h] = "idle"
    /\ Budget(1)
    /\ err' = [err EXCEPT ![h] = TRUE]
    /\ pc' = [pc EXCEPT ![h] = AfterBindError]
    /\ size' = [size EXCEPT ![h] = IF AfterBindError = "upsert" THEN n ELSE 0]
    /\ left' = [left EXCEPT ![h] = IF AfterBindError = "upsert" THEN n ELSE 0]
    /\ UNCHANGED <<cards, uuidCount, now, since, serverTime, card, resp>>

\* c.JSON(http.StatusBadRequest, ...) and return
SyncFail(h) ==
    /\ pc[h] = "reject"
    /\ pc' = [pc EXCEPT ![h] = "idle"]
    /\ err' = [err EXCEPT ![h] = FALSE]
    /\ UNCHANGED <<cards, uuidCount, now, ops, size, left, since, serverTime,
                   card, resp>>

\* one iteration of the loop over req.Cards
SyncUpsert(h, c) ==
    /\ pc[h] = "upsert"
    /\ left[h] > 0
    /\ LoopBody(c)
    /\ left' = [left EXCEPT ![h] = left[h] - 1]
    /\ card' = [card EXCEPT ![h] = Effective(c, uuidCount)]
    /\ UNCHANGED <<now, ops, pc, size, since, serverTime, resp, err>>

\* the delta read not waiting for the loop
LoopDoneEarly(h) == TRUE

\* the range over req.Cards has ended
LoopDone(h) == left[h] = 0

\* the loop is left (its variable goes out of scope, req.Cards is not read
\* again) and getCardsSince(req.LastSyncAt) fills serverCards; t is the
\* LastSyncAt of the body, which nothing reads before this call
SyncRead(h, t) ==
    /\ pc[h] = "upsert"
    /\ LoopDone(h)
    /\ since' = [since EXCEPT ![h] = t]
    /\ \E d \in getCardsSince(cards, t) : resp' = [resp EXCEPT ![h] = d]
    /\ pc' = [pc EXCEPT ![h] = "respond"]
    /\ size' = [size EXCEPT ![h] = 0]
    /\ left' = [left EXCEPT ![h] = 0]
    /\ card' = [card EXCEPT ![h] = NoCard]
    /\ UNCHANGED <<cards, uuidCount, now, ops, serverTime, err>>

\* c.JSON: the response leaves the handler
SyncRespond(h) ==
    /\ pc[h] = "respond"
    /\ pc' = [pc EXCEPT ![h] = "idle"]
    /\ since' = [since EXCEPT ![h] = 0]
    /\ serverTime' = [serverTime EXCEPT ![h] = 0]
    /\ resp' = [resp EXCEPT ![h] = << >>]
    /\ err' = [err EXCEPT ![h] = FALSE]
    /\ UNCHANGED <<cards, uuidCount, now, ops, size, left, card>>

\* a statement is run for a request while no handler changes its position
Rest ==
    /\ Budget(1)
    /\ UNCHANGED <<now, pc, size, left, since, serverTime, card, resp, err>>

(* ------------------------------ ghosts ------------------------------- *)
\* syncIds of the rows of t2 that are new or differ from t1
Changed(t1, t2) == { r.syncId : r \in t2 \ t1 }
ContentOf(r) == <<r.name, r.isDeleted>>

\* the latest statement was the loop body run on c
NoteSync(c) ==
    /\ lastIn' = c
    /\ repeat' = (lastIn = c)

\* the latest statement was one of a REST endpoint
NoteRest ==
    /\ lastIn' = NoCard
    /\ repeat' = FALSE

\* a sync upsert offered k: the window of k.syncId takes it in, or opens when
\* the row is inserted
RaceSync(k) ==
    /\ hi' = [s \in AllSyncIds |->
                IF s # k.syncId THEN hi[s]
                ELSE IF HasSync(cards, s) THEN Max(hi[s], k.updatedAt)
                ELSE IF HasSync(cards', s) THEN k.updatedAt
                ELSE hi[s]]
    /\ top' = [s \in AllSyncIds |->
                IF s # k.syncId THEN top[s]
                ELSE IF HasSync(cards, s)
                     THEN IF k.updatedAt > hi[s] THEN {ContentOf(k)}
                          ELSE IF k.updatedAt = hi[s]
                               THEN top[s] \cup {ContentOf(k)}
                               ELSE top[s]
                ELSE IF HasSync(cards', s) THEN {ContentOf(k)}
                ELSE top[s]]

\* a statement of a REST endpoint: the window of every row it wrote starts again
RaceRest ==
    /\ hi' = [s \in AllSyncIds |->
                IF s \in Changed(cards, cards') THEN RowOf(cards', s).updatedAt
                ELSE hi[s]]
    /\ top' = [s \in AllSyncIds |->
                IF s \in Changed(cards, cards')
                THEN {ContentOf(RowOf(cards', s))} ELSE top[s]]

\* what the observer is owed after a step in which writer wrote the table: a
\* version committed by someone else once the observer has started syncing is
\* owed to it; the versions owed when its sync begins are due in that sync's
\* delta; a version that is overwritten is no longer owed
Track(writer) ==
    LET ch == Changed(cards, cards')
        begins == pc[Observer] = "idle" /\ pc'[Observer] = "upsert"
        reads == pc[Observer] = "upsert" /\ pc'[Observer] = "respond"
        sent == SyncIdsOf(Range(resp'[Observer]))
    IN /\ began' = (began \/ begins)
       /\ owed' = IF reads THEN owed \ sent
                  ELSE IF writer = Observer THEN owed \ ch
                  ELSE IF began THEN owed \cup ch
                  ELSE owed
       /\ due' = IF begins THEN owed
                 ELSE IF reads THEN due \ sent
                 ELSE due \ ch

\* handler h's upsert wrote the table: the row version it left is noted
NoteAcc(h) ==
    acc' = [acc EXCEPT ![h] =
              IF cards' # cards
              THEN acc[h] \cup {RowOf(cards', card'[h].syncId)}
              ELSE acc[h]]

(* ---------------------------- bill matching -------------------------- *)
\* strings the matcher looks into are sequences of characters; "" is << >>
D1234 == <<"1", "2", "3", "4">>
D5678 == <<"5", "6", "7", "8">>
Zeros(n) == [i \in 1..n |-> "0"]

\* what reFullCard can capture, separators removed: 14 to 19 digits
Raw16 == <<"6", "2", "2", "2">> \o Zeros(8) \o D1234
Raw15 == <<"3", "7">> \o Zeros(9) \o D5678
Raw14 == <<"4", "0">> \o Zeros(8) \o D1234
RawNumbers == { << >>, Raw16, Raw15, Raw14 }

\* what reLastFour can capture
MaskedTails == { << >>, D1234, D5678 }

\* what reName can capture: two to eight characters, none of them a blank
MsgNames == { << >>, <<"l", "i">>, <<"W", "U">> }

\* the cardholder names users have typed
HolderNames == { <<"L", "i">>, <<"\t", "l", " ", "I", " ">>, <<"w", "u">> }

\* the last four digits stored with a card
LastFours == { << >>, D1234, D5678 }

\* the columns of a row of cards the matcher reads
Accounts(sid) ==
    [syncId : {sid}, lastFour : LastFours, cardholderName : HolderNames,
     isDeleted : BOOLEAN]

\* lists of rows with distinct syncIds
AccountNames == <<"s1", "s2", "s3", "s4">>
RECURSIVE AccountLists(_)
AccountLists(n) ==
    IF n = 0
    THEN { << >> }
    ELSE { Append(cs, a) :
             cs \in AccountLists(n - 1), a \in Accounts(AccountNames[n]) }

\* s[len(s)-4:]
Last4(s) == SubSeq(s, Len(s) - 3, Len(s))

\* extractBillFields: the card number, the tail and the name of a message
extractBillFields(raw, tail, name) ==
    LET full == IF Len(raw) >= 15 THEN raw ELSE << >>
    IN  [fullCardNumber |-> full,
         lastFourFromMsg |-> IF full # << >> THEN Last4(raw) ELSE tail,
         holderName |-> name]

IsSpace(c) == c \in {" ", "\t"}

RECURSIVE TrimLeft(_)
TrimLeft(s) ==
    IF s # << >> /\ IsSpace(Head(s)) THEN TrimLeft(Tail(s)) ELSE s

RECURSIVE TrimRight(_)
TrimRight(s) ==
    IF s # << >> /\ IsSpace(s[Len(s)])
    THEN TrimRight(SubSeq(s, 1, Len(s) - 1))
    ELSE s

\* strings.TrimSpace
TrimSpace(s) == TrimRight(TrimLeft(s))

\* strings.ReplaceAll(s, " ", "")
NoBlanks(s) == SelectSeq(s, LAMBDA c : c # " ")

UpperOf(c) ==
    CASE c = "l" -> "L"
      [] c = "i" -> "I"
      [] c = "w" -> "W"
      [] c = "u" -> "U"
      [] OTHER -> c

\* strings.ToUpper
ToUpper(s) == [i \in DOMAIN s |-> UpperOf(s[i])]

normalizeChineseName(s) == ToUpper(NoBlanks(TrimSpace(s)))

\* a matcher that lets deleted cards take part
ActiveAll(cs) == cs

\* the cards that are not deleted, in the order given
Active(cs) == SelectSeq(cs, LAMBDA c : ~c.isDeleted)

Found(c, by, conf) ==
    [card |-> c, matchedBy |-> by, confidence |-> conf, found |-> TRUE]

\* priority 1: the last four digits of the full card number
FullTier(p, active) ==
    IF p.fullCardNumber # << >>
    THEN LET last4 == Last4(p.fullCardNumber)
             matched == SelectSeq(active,
                 LAMBDA c : c.lastFour # << >> /\ c.lastFour = last4)
         IN  IF matched # << >>
             THEN Found(matched[1], "full_card", "high")
             ELSE NoMatch
    ELSE NoMatch

\* a masked tier that takes the last of several cards
MaskTierLast(p, active) ==
    IF p.lastFourFromMsg # << >>
    THEN LET matched == SelectSeq(active,
                 LAMBDA c : c.lastFour # << >> /\ c.lastFour = p.lastFourFromMsg)
         IN  IF Len(matched) = 1
             THEN Found(matched[1], "last_four", "medium")
             ELSE IF Len(matched) > 1
             THEN Found(matched[Len(matched)], "last_four", "ambiguous")
             ELSE NoMatch
    ELSE NoMatch

\* a masked tier that does not flag several cards
MaskTierTrusting(p, active) ==
    IF p.lastFourFromMsg # << >>
    THEN LET matched == SelectSeq(active,
                 LAMBDA c : c.lastFour # << >> /\ c.lastFour = p.lastFourFromMsg)
         IN  IF Len(matched) >= 1
             THEN Found(matched[1], "last_four", "medium")
             ELSE NoMatch
    ELSE NoMatch

\* priority 2: the tail of a masked card number
MaskTier(p, active) ==
    IF p.lastFourFromMsg # << >>
    THEN LET matched == SelectSeq(active,
                 LAMBDA c : c.lastFour # << >> /\ c.lastFour = p.lastFourFromMsg)
         IN  IF Len(matched) = 1
             THEN Found(matched[1], "last_four", "medium")
             ELSE IF Len(matched) > 1
             THEN Found(matched[1], "last_four", "ambiguous")
             ELSE NoMatch
    ELSE NoMatch

\* priority 3: the name
NameTier(p, active) ==
    IF p.holderName # << >>
    THEN LET matched == SelectSeq(active,
                 LAMBDA c : normalizeChineseName(c.cardholderName)
                              = normalizeChineseName(p.holderName))
         IN  IF Len(matched) = 1
             THEN Found(matched[1], "name", "low")
             ELSE IF Len(matched) > 1
             THEN Found(matched[1], "name", "ambiguous")
             ELSE NoMatch
    ELSE NoMatch

\* a matcher that asks the name first
matchBillToCardNameFirst(p, cs) ==
    LET active == Active(cs)
    IN  IF NameTier(p, active).found THEN NameTier(p, active)
        ELSE IF MaskTier(p, active).found THEN MaskTier(p, active)
        ELSE IF FullTier(p, active).found THEN FullTier(p, active)
        ELSE NoMatch

matchBillToCard(p, cs) ==
    LET active == Active(cs)
    IN  IF FullTier(p, active).found THEN FullTier(p, active)
        ELSE IF MaskTier(p, active).found THEN MaskTier(p, active)
        ELSE IF NameTier(p, active).found THEN NameTier(p, active)
        ELSE NoMatch

\* one call of the matcher
MatchCall(raw, tail, name, cs) ==
    /\ pb = NoBill
    /\ pb' = extractBillFields(raw, tail, name)
    /\ accts' = cs
    /\ mr' = matchBillToCard(pb', cs)

(* --------------------------- bill ingestion -------------------------- *)
\* the table cards as an ingestion run finds it
AccountTables ==
    { { [id |-> "1", syncId |-> "s1", name |-> "b", lastFour |-> D1234,
         cardholderName |-> <<"L", "i">>, isDeleted |-> TRUE,
         createdAt |-> 0, updatedAt |-> 0] },
      { [id |-> "1", syncId |-> "s1", name |-> "a", lastFour |-> D1234,
         cardholderName |-> <<"L", "i">>, isDeleted |-> FALSE,
         createdAt |-> 0, updatedAt |-> 0] },
      { [id |-> "1", syncId |-> "s1", name |-> "a", lastFour |-> D1234,
         cardholderName |-> <<"L", "i">>, isDeleted |-> FALSE,
         createdAt |-> 0, updatedAt |-> 0],
        [id |-> "2", syncId |-> "s2", name |-> "a", lastFour |-> D1234,
         cardholderName |-> <<"w", "u">>, isDeleted |-> FALSE,
         createdAt |-> 0, updatedAt |-> 0],
        [id |-> "3", syncId |-> "s3", name |-> "b", lastFour |-> D5678,
         cardholderName |-> <<"w", "u">>, isDeleted |-> TRUE,
         createdAt |-> 0, updatedAt |-> 0] } }

\* the goroutine that serves the sync requests met during ingestion
Teller == "A"

\* the cards of those requests: the devices have deleted the cards s1 and
\* s2, which both hold under the Dexie key 1
LedgerCards ==
    { [id |-> k[1], syncId |-> k[2], name |-> "b", lastFour |-> D1234,
       cardholderName |-> <<"L", "i">>, isDeleted |-> TRUE,
       createdAt |-> MaxTime, updatedAt |-> MaxTime] :
        k \in KeysOf["A"] \cup KeysOf["B"] }

\* the orders a SELECT without ORDER BY may give the rows in
Orders(S) ==
    { f \in [1..Cardinality(S) -> S] :
        \A i, j \in 1..Cardinality(S) : f[i] = f[j] => i = j }

\* getCardsAll: the rows with is_deleted = 0
getCardsAll(tbl) == Orders({ r \in tbl : ~r.isDeleted })

\* decodeBody: a body that is base64 as a whole is decoded, any other is
\* taken as it is; <<"b64", ...>> stands for the base64 of the rest
decodeBody(data) ==
    IF data # << >> /\ Head(data) = "b64" THEN Tail(data) ELSE data

\* regexp \s+ replaced by one blank
RECURSIVE Squeeze(_)
Squeeze(s) ==
    IF Len(s) < 2 THEN s
    ELSE IF IsSpace(s[1]) /\ IsSpace(s[2]) THEN Squeeze(Tail(s))
    ELSE <<s[1]>> \o Squeeze(Tail(s))

\* stripHTML: tags and &nbsp; become blanks, the other entities their
\* character, runs of blanks one blank, and the ends are trimmed
stripHTML(html) ==
    LET plain(c) ==
            CASE c \in {"<b>", "</b>", "&nbsp;"} -> " "
              [] c = "&amp;" -> "&"
              [] OTHER -> c
    IN  TrimSpace(Squeeze([i \in DOMAIN html |-> plain(html[i])]))

\* strings.Join(textParts, "\n")
RECURSIVE Join(_)
Join(textParts) ==
    IF textParts = << >> THEN << >>
    ELSE IF Len(textParts) = 1 THEN textParts[1]
    ELSE textParts[1] \o <<"\n">> \o Join(Tail(textParts))

\* the MIME parts a message is made of
PartValues ==
    { [ct |-> "text/plain", data |-> <<"p">>],
      [ct |-> "text/plain", data |-> <<"b64", "q">>],
      [ct |-> "text/html", data |-> <<"<b>", "h", "&nbsp;", "</b>">>],
      [ct |-> "application/pdf", data |-> <<"%">>],
      [ct |-> "image/png", data |-> <<"#">>] }

RECURSIVE PartLists(_)
PartLists(n) ==
    IF n = 0 THEN { << >> }
    ELSE LET shorter == PartLists(n - 1)
         IN  shorter \cup
             { Append(ps, p) : ps \in { q \in shorter : Len(q) = n - 1 },
                               p \in PartValues }

\* a label the html part always takes
LabelAfterLast(label, ct) ==
    CASE ct = "text/plain" -> "text"
      [] ct = "text/html" -> "html"
      [] ct = "application/pdf" -> "pdf"
      [] OTHER -> label

\* pb.statementType after the case of the switch for content type ct
LabelAfter(label, ct) ==
    CASE ct = "text/plain" -> "text"
      [] ct = "text/html" -> IF label = "" THEN "html" ELSE label
      [] ct = "application/pdf" -> "pdf"
      [] OTHER -> label

\* textParts after the case of the switch for part p
TextsAfter(textParts, p) ==
    CASE p.ct = "text/plain" -> Append(textParts, decodeBody(p.data))
      [] p.ct = "text/html" -> Append(textParts, stripHTML(decodeBody(p.data)))
      [] OTHER -> textParts

\* the loop over mr.NextPart() of parseIMAPMessage
RECURSIVE ReadParts(_)
ReadParts(ps) ==
    IF ps = << >> THEN [statementType |-> "", textParts |-> << >>]
    ELSE LET before == ReadParts(SubSeq(ps, 1, Len(ps) - 1))
             p == ps[Len(ps)]
         IN  [statementType |-> LabelAfter(before.statementType, p.ct),
              textParts |-> TextsAfter(before.textParts, p)]

\* a text or a subject is a sequence of words; the words below stand for what
\* the regular expressions capture in them
CardWords == {"card16", "card15", "card14"}
TailWords == {"tail1234", "tail5678"}
NameWords == {"dear li", "dear WU"}

\* the first word of text that is one of words, or "" when there is none
FirstOf(text, words) ==
    LET hits == SelectSeq(text, LAMBDA w : w \in words)
    IN  IF hits = << >> THEN "" ELSE hits[1]

\* reFullCard.FindStringSubmatch(text), blanks and dashes removed
reFullCard(text) ==
    LET w == FirstOf(text, CardWords)
    IN  CASE w = "card16" -> Raw16
          [] w = "card15" -> Raw15
          [] w = "card14" -> Raw14
          [] OTHER -> << >>

\* reLastFour.FindStringSubmatch(text)
reLastFour(text) ==
    LET w == FirstOf(text, TailWords)
    IN  CASE w = "tail1234" -> D1234
          [] w = "tail5678" -> D5678
          [] OTHER -> << >>

\* reName.FindStringSubmatch(text)
reName(text) ==
    LET w == FirstOf(text, NameWords)
    IN  CASE w = "dear li" -> <<"l", "i">>
          [] w = "dear WU" -> <<"W", "U">>
          [] OTHER -> << >>

\* the masked tail extractBillFields finds when it looks for one: in the
\* text, and in the subject when the text has none
MaskedTail(text, subject) ==
    IF reLastFour(text) # << >> THEN reLastFour(text) ELSE reLastFour(subject)

\* strings.Contains on sequences of characters
Contains(str, sub) ==
    \E i \in 0..(Len(str) - Len(sub)) : SubSeq(str, i + 1, i + Len(sub)) = sub

LowerOf(c) ==
    CASE c = "I" -> "i"
      [] c = "C" -> "c"
      [] c = "B" -> "b"
      [] OTHER -> c

\* strings.ToLower
ToLower(str) == [i \in DOMAIN str |-> LowerOf(str[i])]

\* three keys of bankDomainMap, in the order of the source: cmbchina is
\* China Merchants Bank ("CMB"), icbc is ICBC, cmbc is Minsheng ("CMBC")
DomainKeys ==
    << <<"c", "m", "b", "c", "h", "i", "n", "a">>, <<"i", "c", "b", "c">>,
       <<"c", "m", "b", "c">> >>
DomainBanks == <<"CMB", "ICBC", "CMBC">>

\* two keys of bankSubjectMap, in the order of the source, as words
SubjectKeys == <<"zhaoshang", "minsheng">>
SubjectBanks == <<"CMB", "CMBC">>

\* detectBank: the banks it can return.  Both loops range over a Go map,
\* whose order of iteration is not fixed: the first key that matches is any
\* key that matches
detectBank(from, subject) ==
    LET fromLower == ToLower(from)
        byDomain == { DomainBanks[i] : i \in { j \in DOMAIN DomainKeys :
                                                 Contains(fromLower, DomainKeys[j]) } }
        bySubject == { SubjectBanks[i] : i \in { j \in DOMAIN SubjectKeys :
                                                   \E n \in DOMAIN subject :
                                                      subject[n] = SubjectKeys[j] } }
    IN  IF byDomain # {} THEN byDomain
        ELSE IF bySubject # {} THEN bySubject
        ELSE {""}

\* a parser that gives up on a message whose body it cannot read
parseIMAPMessageOrNil(m, bank) ==
    IF ~m.envelope \/ m.body # "parts" THEN NoBill
    ELSE LET read == ReadParts(m.parts)
             text == Join(read.textParts)
             f == extractBillFields(reFullCard(text),
                                    MaskedTail(text, m.subject), reName(text))
         IN  [uid |-> m.uid, subject |-> m.subject, from |-> m.from,
              statementType |-> read.statementType, body |-> text,
              bank |-> bank, fullCardNumber |-> f.fullCardNumber,
              lastFourFromMsg |-> f.lastFourFromMsg,
              holderName |-> f.holderName]

\* parseIMAPMessage: nil (NoBill) for a message without envelope, the record
\* of uid, subject and sender when GetBody gives nothing or CreateReader
\* fails, else the record with the parts read and the fields extracted; bank
\* is the bank detectBank comes to
parseIMAPMessage(m, bank) ==
    IF ~m.envelope THEN NoBill
    ELSE IF m.body # "parts"
    THEN [uid |-> m.uid, subject |-> m.subject, from |-> m.from,
          statementType |-> "", body |-> << >>, bank |-> "",
          fullCardNumber |-> << >>, lastFourFromMsg |-> << >>,
          holderName |-> << >>]
    ELSE LET read == ReadParts(m.parts)
             text == Join(read.textParts)
             f == extractBillFields(reFullCard(text),
                                    MaskedTail(text, m.subject), reName(text))
         IN  [uid |-> m.uid, subject |-> m.subject, from |-> m.from,
              statementType |-> read.statementType, body |-> text,
              bank |-> bank, fullCardNumber |-> f.fullCardNumber,
              lastFourFromMsg |-> f.lastFourFromMsg,
              holderName |-> f.holderName]

\* the parts of the message with a UID
MailParts(uid) ==
    LET k == uid % 4
    IN  CASE k = 1 -> << [ct |-> "text/plain", data |-> <<"tail1234">>] >>
          [] k = 2 -> << [ct |-> "application/pdf", data |-> <<"%">>] >>
          [] k = 3 -> << [ct |-> "text/html",
                          data |-> <<"<b>", "card16", "&nbsp;", "</b>">>],
                         [ct |-> "text/plain", data |-> <<"dear li">>] >>
          [] OTHER -> << [ct |-> "text/html",
                          data |-> <<"<b>", "card14", "&nbsp;", "dear WU",
                                     "</b>">>] >>

\* the message with a UID is the same in every run: sent from an address
\* that names no bank, with a subject that names none
Message(uid) ==
    [uid |-> uid, envelope |-> TRUE, from |-> <<"q", "q">>,
     subject |-> <<"bill">>, body |-> "parts", parts |-> MailParts(uid)]

\* parseIMAPMessage on the message with a UID
Mail(uid) == parseIMAPMessage(Message(uid), "")

\* fetchEmailsFromIMAP: the messages from..to of the mailbox
fetchEmailsFromIMAP(from, to) ==
    [i \in 1..(to - from + 1) |-> Mail(from + i - 1)]

\* a window that starts one message too early
SeqSetOfEarly(n) ==
    IF n = 0
    THEN [asked |-> FALSE, from |-> 0, to |-> 0, err |-> FALSE]
    ELSE [asked |-> TRUE, from |-> IF n > FetchCap THEN n - FetchCap ELSE 1,
          to |-> n, err |-> FALSE]

\* fetchEmailsFromIMAP on a mailbox of n messages: the range it adds to
\* seqset, or the return of nil, nil before any range when n is 0
SeqSetOf(n) ==
    IF n = 0
    THEN [asked |-> FALSE, from |-> 0, to |-> 0, err |-> FALSE]
    ELSE [asked |-> TRUE, from |-> IF n > FetchCap THEN n - 99 ELSE 1,
          to |-> n, err |-> FALSE]

\* the characters a text is made of: one byte, three bytes, and a byte that
\* is no UTF-8
Fills == {"a", "yuan", "xff"}

\* []rune(s): a byte that is no UTF-8 becomes U+FFFD
Runes(s) == [i \in DOMAIN s |-> IF s[i] = "xff" THEN "ufffd" ELSE s[i]]

truncate(s, n) ==
    LET runes == Runes(s)
    IN  IF Len(runes) <= n THEN s
        ELSE SubSeq(runes, 1, n) \o <<".", ".", ".">>

\* the texts truncate is given: lengths about the cap, the first character
\* and the others chosen apart
Texts ==
    { [i \in 1..n |-> IF i = 1 THEN h ELSE c] :
        n \in (ExcerptCap - MaxOver)..(ExcerptCap + MaxOver),
        h \in Fills, c \in Fills }

\* the BillStatement handleFetchBills builds
Statement(p, r, t) ==
    [uid |-> p.uid, cardSyncId |-> r.card.syncId,
     bank |-> p.bank, statementType |-> p.statementType,
     rawContent |-> truncate(p.body, ExcerptCap), matchedBy |-> r.matchedBy,
     matchConfidence |-> r.confidence, fetchedAt |-> t]

\* an insert that replaces the row with the same email_uid
saveBillStatementReplace(tbl, b) ==
    { r \in tbl : r.uid # b.uid } \cup {b}

\* INSERT OR IGNORE under the unique index on email_uid
saveBillStatement(tbl, b) ==
    IF \E r \in tbl : r.uid = b.uid THEN tbl ELSE tbl \cup {b}

\* the row of email_config a run finds
StoredConfig ==
    [id |-> 1, email |-> "e1", password |-> "p1", imapHost |-> "imap.qq.com:993"]

\* a session that is logged out only when the fetch succeeds
DeferredOnSuccess(exit) == IF exit = "done" THEN "closed" ELSE "open"

\* defer c.Logout(): whatever return is taken, the session is logged out
Deferred(exit) == "closed"

\* POST /api/v1/bills/fetch: loadEmailConfig finds no row
FetchNoConfig ==
    /\ bpc = "idle"
    /\ emailConfig = NoConfig
    /\ bpc' = "refused"
    /\ UNCHANGED <<pb, accts, mr, stmts, inbox, saved, skipped, bs, added, total,
                   session, broken>>

\* fetchEmailsFromIMAP: client.DialTLS
FetchDial(ok) ==
    /\ bpc = "idle"
    /\ emailConfig # NoConfig
    /\ bpc' = IF ok THEN "login" ELSE "failed"
    /\ session' = IF ok THEN "open" ELSE session
    /\ UNCHANGED <<pb, accts, mr, stmts, inbox, saved, skipped, bs, added, total,
                   broken>>

\* fetchEmailsFromIMAP: c.Login
FetchLogin(ok) ==
    /\ bpc = "login"
    /\ bpc' = IF ok THEN "select" ELSE "failed"
    /\ session' = IF ok THEN session ELSE Deferred("login")
    /\ UNCHANGED <<pb, accts, mr, stmts, inbox, saved, skipped, bs, added, total,
                   broken>>

\* fetchEmailsFromIMAP: c.Select("INBOX")
FetchSelect(ok) ==
    /\ bpc = "select"
    /\ bpc' = IF ok THEN "fetch" ELSE "failed"
    /\ session' = IF ok THEN session ELSE Deferred("select")
    /\ UNCHANGED <<pb, accts, mr, stmts, inbox, saved, skipped, bs, added, total,
                   broken>>

\* fetchEmailsFromIMAP from the test of mbox.Messages on: the mailbox holds
\* the messages from..to, c.Fetch delivers the first k of them and sends e on
\* done, the messages delivered are returned with a nil error; then
\* handleFetchBills loads the cards
FetchRetrieve(from, to, k, e) ==
    /\ bpc = "fetch"
    /\ k \in 0..(to - from + 1)
    /\ k < to - from + 1 => e
    /\ to < from => ~e
    /\ bpc' = "loop"
    /\ inbox' = SubSeq(fetchEmailsFromIMAP(from, to), 1, k)
    /\ broken' = e
    /\ session' = Deferred("done")
    /\ accts' \in getCardsAll(cards)
    /\ saved' = 0
    /\ skipped' = 0
    /\ added' = 0
    /\ total' = k
    /\ UNCHANGED <<pb, mr, bs, stmts>>

\* handleFetchBills answers 400 or 500 and returns
FetchFail ==
    /\ bpc \in {"refused", "failed"}
    /\ bpc' = "idle"
    /\ session' = "none"
    /\ UNCHANGED <<pb, accts, mr, stmts, inbox, saved, skipped, bs, added, total,
                   broken>>

\* a loop that saves a statement for every message
SkipsNever(r) == FALSE

\* if !mr.found { skipped++; continue }
Skips(r) == ~r.found

\* a run that gives up at the first statement it cannot save
AfterSaveErrorAbort == "done"

\* where the loop goes when saveBillStatement returns an error: it logs and
\* takes the next message
AfterSaveError == "loop"

\* a save that writes to the card of the statement as well
SaveStatementMarking(b, ok) ==
    /\ stmts' = IF ok THEN saveBillStatement(stmts, b) ELSE stmts
    /\ cards' = { IF r.syncId = b.cardSyncId THEN [r EXCEPT !.name = "billed"]
                  ELSE r : r \in cards }

\* saveBillStatement as the database runs it: the statement touches table
\* bill_statements only; ok is whether db.Exec returns no error
SaveStatement(b, ok) ==
    /\ stmts' = IF ok THEN saveBillStatement(stmts, b) ELSE stmts
    /\ UNCHANGED cards

\* one message of the loop
FetchStep(ok) ==
    /\ bpc = "loop"
    /\ inbox # << >>
    /\ inbox' = Tail(inbox)
    /\ pb' = Head(inbox)
    /\ IF pb'.statementType = "pdf" /\ pb'.body = << >>
       THEN /\ ok
            /\ skipped' = skipped + 1
            /\ UNCHANGED <<mr, bs, stmts, saved, added, bpc, cards>>
       ELSE /\ mr' = matchBillToCard(pb', accts)
            /\ IF Skips(mr')
               THEN /\ ok
                    /\ skipped' = skipped + 1
                    /\ UNCHANGED <<bs, stmts, saved, added, bpc, cards>>
               ELSE /\ bs' = Statement(pb', mr', now)
                    /\ SaveStatement(bs', ok)
                    /\ saved' = IF ok THEN saved + 1 ELSE saved
                    /\ added' = added + (IF stmts' # stmts THEN 1 ELSE 0)
                    /\ bpc' = IF ok THEN "loop" ELSE AfterSaveError
                    /\ UNCHANGED skipped
    /\ UNCHANGED <<accts, session, broken, total>>

\* the response with total, saved and skipped
FetchRespond ==
    /\ bpc = "loop"
    /\ inbox = << >>
    /\ bpc' = "done"
    /\ UNCHANGED <<pb, accts, mr, stmts, inbox, saved, skipped, bs, added, total,
                   session, broken>>

\* the handler has returned
FetchReturn ==
    /\ bpc = "done"
    /\ bpc' = "idle"
    /\ pb' = NoBill
    /\ accts' = << >>
    /\ mr' = NoMatch
    /\ bs' = NoStatement
    /\ saved' = 0
    /\ skipped' = 0
    /\ added' = 0
    /\ total' = 0
    /\ session' = "none"
    /\ broken' = FALSE
    /\ UNCHANGED <<stmts, inbox>>

(* ------------------------ the matcher, called ------------------------ *)
\* the caller has used the result
MatchReturn ==
    /\ pb # NoBill
    /\ pb' = NoBill
    /\ accts' = << >>
    /\ mr' = NoMatch

(* ---------------------- the fetch window, called --------------------- *)
\* SELECT INBOX answers n messages and the window is computed
WindowCall(n) ==
    /\ seqset = NoRange
    /\ mbox' = n
    /\ seqset' = SeqSetOf(n)

\* the caller has used the window
WindowReturn ==
    /\ seqset # NoRange
    /\ mbox' = 0
    /\ seqset' = NoRange

(* ----------------------- the excerpt, called ------------------------- *)
\* handleFetchBills fills RawContent from the body of a parsed message
ExcerptCall(s) ==
    /\ pb = NoBill
    /\ pb' = [uid |-> 1, body |-> s]
    /\ bs' = [uid |-> 1, rawContent |-> truncate(s, ExcerptCap)]

\* the statement has been handed on
ExcerptReturn ==
    /\ pb # NoBill
    /\ pb' = NoBill
    /\ bs' = NoStatement

(* ------------------------- the mail configuration -------------------- *)
\* the bodies of POST /bills/config and POST /bills/config/test: an address,
\* an authorisation code, and a host that may be left out
Emails == {"e1", "e2", "e3"}
Passwords == {"p1", "p2", "p3"}
Hosts == {"", "h1", "h2"}
ConfigBodies ==
    { [id |-> 0, email |-> e, password |-> p, imapHost |-> h] :
        e \in Emails, p \in Passwords, h \in Hosts }

\* if cfg.IMAPHost == "" { cfg.IMAPHost = "imap.qq.com:993" }
WithHost(cfg) ==
    IF cfg.imapHost = "" THEN [cfg EXCEPT !.imapHost = "imap.qq.com:993"]
    ELSE cfg

\* a read-back that answers the row as loadEmailConfig scanned it
ConfigDataWhole(cfg) == cfg

\* the data of the answer of GET /bills/config for a stored row
ConfigData(cfg) ==
    [id |-> cfg.id, email |-> cfg.email, imapHost |-> cfg.imapHost]

\* GET /bills/config
handleGetEmailConfig ==
    /\ cresp' = IF emailConfig = NoConfig
                THEN [asked |-> TRUE, endpoint |-> "get", success |-> TRUE,
                      found |-> FALSE]
                ELSE [asked |-> TRUE, endpoint |-> "get", success |-> TRUE,
                      found |-> TRUE, data |-> ConfigData(emailConfig)]
    /\ UNCHANGED emailConfig

\* POST /bills/config: the one row, id 1, inserted or overwritten
handleSaveEmailConfig(body) ==
    /\ emailConfig' = [WithHost(body) EXCEPT !.id = 1]
    /\ cresp' = [asked |-> TRUE, endpoint |-> "save", success |-> TRUE]

\* POST /bills/config/test: dial, login and logout with the body; the
\* outcome is the mail server's
handleTestEmailConfig(body, outcome) ==
    /\ cresp' = [asked |-> TRUE, endpoint |-> "test",
                 success |-> (outcome = "ok"),
                 host |-> WithHost(body).imapHost, error |-> outcome]
    /\ UNCHANGED emailConfig

(* ------------------------ the parts, called -------------------------- *)
\* parseIMAPMessage reads the parts ps of a message
PartsCall(ps) ==
    /\ pb = NoBill
    /\ parts' = ps
    /\ pb' = [uid |-> 1, statementType |-> ReadParts(ps).statementType,
              body |-> Join(ReadParts(ps).textParts)]

\* the caller has used the parsed message
PartsReturn ==
    /\ pb # NoBill
    /\ parts' = << >>
    /\ pb' = NoBill

(* ----------------------- the parser, called ------------------------- *)
\* the senders, subjects and bodies of the messages c.Fetch delivers
Senders ==
    { << >>, <<"q", "q">>, <<"c", "m", "b", "c", "h", "i", "n", "a">>,
      <<"c", "m", "b", "c">>, <<"I", "C", "B", "C">> }
Subjects ==
    { <<"bill">>, <<"tail5678">>, <<"zhaoshang", "bill">>,
      <<"minsheng", "zhaoshang">>, <<"minsheng", "tail1234">> }
Bodies ==
    { << >>,
      << [ct |-> "text/plain", data |-> <<"p">>] >>,
      << [ct |-> "text/plain", data |-> <<"tail1234">>] >>,
      << [ct |-> "text/plain", data |-> <<"card16", "tail5678">>] >>,
      << [ct |-> "text/html",
          data |-> <<"<b>", "card14", "&nbsp;", "dear WU", "</b>">>] >>,
      << [ct |-> "application/pdf", data |-> <<"%">>] >> }
Messages ==
    [uid : {1}, envelope : {TRUE}, from : Senders, subject : Subjects,
     body : {"parts"}, parts : Bodies]
    \cup [uid : {1}, envelope : {TRUE}, from : Senders, subject : Subjects,
          body : {"nil", "unparsable"}, parts : {<< >>}]
    \cup [uid : {1}, envelope : {FALSE}, from : {<< >>}, subject : {<< >>},
          body : {"parts"}, parts : Bodies]

\* the body of the loop over messages in fetchEmailsFromIMAP, for message m:
\* the record is appended to bills unless the parser returned nil
ParseCall(m, bank) ==
    /\ parsed = "none"
    /\ bank \in detectBank(m.from, m.subject)
    /\ msg' = m
    /\ parts' = m.parts
    /\ pb' = parseIMAPMessage(m, bank)
    /\ parsed' = IF pb' = NoBill THEN "nil" ELSE "record"
    /\ inbox' = IF pb' = NoBill THEN << >> ELSE <<pb'>>
    /\ total' = Len(inbox')

\* the bills have been handed on
ParseReturn ==
    /\ parsed # "none"
    /\ msg' = NoMsg
    /\ parts' = << >>
    /\ pb' = NoBill
    /\ parsed' = "none"
    /\ inbox' = << >>
    /\ total' = 0

(* ----------------------- the client: SyncService --------------------- *)
\* a Date is its seconds and the milliseconds past them
Fracs == {0, 500}
\* new Date(sec * 1000)
DateOf(sec) == <<sec, 0>>
\* Math.floor(date.getTime() / 1000)
ToSeconds(date) == date[1]

\* the keys Dexie's auto-increment hands out, as the JSON of a request has them
KeyNames == <<"1", "2", "3", "4", "5", "6">>

\* the record of store tbl under key id, after changes ch are applied to it
Updated(tbl, id, ch) ==
    { IF r.id = id THEN [f \in DOMAIN r |-> IF f \in DOMAIN ch THEN ch[f] ELSE r[f]]
      ELSE r : r \in tbl }

\* useCards().addCard: a record without syncId
useCardsAdd(d, frac) ==
    /\ nextId[d] < Len(KeyNames)
    /\ local' = [local EXCEPT ![d] = @ \cup
                   {[id |-> nextId[d] + 1, syncId |-> "", name |-> "a",
                     isDeleted |-> FALSE, createdAt |-> <<now, frac>>,
                     updatedAt |-> <<now, frac>>]}]
    /\ nextId' = [nextId EXCEPT ![d] = @ + 1]

\* useCards().updateCard
useCardsUpdate(d, id, frac) ==
    /\ \E r \in local[d] : r.id = id
    /\ local' = [local EXCEPT ![d] =
                   Updated(@, id, [name |-> "e", updatedAt |-> <<now, frac>>])]
    /\ UNCHANGED nextId

\* useCards().deleteCard: the record is flagged
useCardsDelete(d, id, frac) ==
    /\ \E r \in local[d] : r.id = id /\ ~r.isDeleted
    /\ local' = [local EXCEPT ![d] =
                   Updated(@, id, [isDeleted |-> TRUE, updatedAt |-> <<now, frac>>])]
    /\ UNCHANGED nextId

\* sync() up to the try: a call made while another is in flight returns the
\* error result; else isSyncing is set
SyncCall(d) ==
    /\ IF isSyncing[d]
       THEN /\ ret' = [ret EXCEPT ![d] = "busy"]
            /\ UNCHANGED <<isSyncing, cpc>>
       ELSE /\ isSyncing' = [isSyncing EXCEPT ![d] = TRUE]
            /\ cpc' = [cpc EXCEPT ![d] = "collect"]
            /\ ret' = [ret EXCEPT ![d] = "none"]
    /\ UNCHANGED <<local, nextId, reply, found>>

\* forceFullSync: the watermark is reset, then sync() is called
forceFullSync(d) ==
    /\ lastSyncAt' = [lastSyncAt EXCEPT ![d] = 0]
    /\ SyncCall(d)

\* the records of tbl without syncId that have a smaller key than r
Before(tbl, r) == { q \in tbl : q.syncId = "" /\ q.id < r.id }

\* sync(): db.cards.toArray() and the loop that gives every record without
\* syncId a generated one
Collect(d) ==
    LET lacking == { r \in local[d] : r.syncId = "" }
    IN  /\ cpc[d] = "collect"
        /\ uuidCount + Cardinality(lacking) <= MaxUuid
        /\ local' = [local EXCEPT ![d] =
                       { IF r.syncId = ""
                         THEN [r EXCEPT !.syncId =
                                 NewUuid(uuidCount +
                                         Cardinality(Before(local[d], r)))]
                         ELSE r : r \in @ }]
        /\ uuidCount' = uuidCount + Cardinality(lacking)
        /\ cpc' = [cpc EXCEPT ![d] = "send"]
        /\ UNCHANGED <<nextId, isSyncing, reply, found, ret, lastSyncAt>>

\* a client that stores the serverTime as soon as the response is read
MarkOnReplyEager(mark, r) == r.serverTime

\* lastSyncAt when the response has been read: as it was
MarkOnReply(mark, r) == mark

\* sync(): the request is answered with result.success and data r
SendOk(d, r) ==
    /\ cpc[d] = "send"
    /\ reply' = [reply EXCEPT ![d] = r]
    /\ cpc' = [cpc EXCEPT ![d] = "merge"]
    /\ lastSyncAt' = [lastSyncAt EXCEPT ![d] = MarkOnReply(@, r)]
    /\ UNCHANGED <<local, nextId, isSyncing, found, ret>>

\* sync(): the response is ok and has no data to merge; the call returns
\* success without touching lastSyncAt
SendNoData(d) ==
    /\ cpc[d] = "send"
    /\ cpc' = [cpc EXCEPT ![d] = "idle"]
    /\ isSyncing' = [isSyncing EXCEPT ![d] = FALSE]
    /\ ret' = [ret EXCEPT ![d] = "ok"]
    /\ UNCHANGED <<local, nextId, reply, found, lastSyncAt>>

\* a catch block that leaves the flag set
AfterCatchKept == TRUE

\* isSyncing after the catch block
AfterCatch == FALSE

\* sync(): fetch rejects, the response is not ok, or a statement on db.cards
\* throws; the catch block returns the error result
Throw(d) ==
    /\ cpc[d] \in {"send", "apply"}
    /\ cpc' = [cpc EXCEPT ![d] = "idle"]
    /\ isSyncing' = [isSyncing EXCEPT ![d] = AfterCatch]
    /\ ret' = [ret EXCEPT ![d] = "error"]
    /\ reply' = [reply EXCEPT ![d] = NoReply]
    /\ found' = [found EXCEPT ![d] = NoCard]
    /\ UNCHANGED <<local, nextId, lastSyncAt>>

\* mergeServerCard up to the comparison: the first record with the syncId of
\* serverCard is read
MergeFind(d) ==
    LET sc == Head(reply[d].cards)
        same == { r \in local[d] : r.syncId = sc.syncId }
    IN  /\ cpc[d] = "merge"
        /\ reply[d].cards # << >>
        /\ found' = [found EXCEPT ![d] =
                       IF same = {} THEN NoCard
                       ELSE CHOOSE r \in same : \A q \in same : r.id <= q.id]
        /\ cpc' = [cpc EXCEPT ![d] = "apply"]
        /\ UNCHANGED <<local, nextId, isSyncing, reply, ret, lastSyncAt>>

\* the record mergeServerCard writes for serverCard sc under key id
Merged(sc, id) ==
    [id |-> id, syncId |-> sc.syncId, name |-> sc.name,
     isDeleted |-> sc.isDeleted, createdAt |-> DateOf(sc.createdAt),
     updatedAt |-> DateOf(sc.updatedAt)]

\* mergeServerCard from the comparison on: the record read is overwritten when
\* the server's version is newer than it, a record not found is added
MergeApply(d) ==
    LET sc == Head(reply[d].cards)
        lc == found[d]
    IN  /\ cpc[d] = "apply"
        /\ IF lc # NoCard
           THEN /\ local' = [local EXCEPT ![d] =
                               IF sc.updatedAt > ToSeconds(lc.updatedAt)
                               THEN Updated(@, lc.id, Merged(sc, lc.id))
                               ELSE @]
                /\ UNCHANGED nextId
           ELSE /\ nextId[d] < Len(KeyNames)
                /\ local' = [local EXCEPT ![d] =
                               @ \cup {Merged(sc, nextId[d] + 1)}]
                /\ nextId' = [nextId EXCEPT ![d] = @ + 1]
        /\ reply' = [reply EXCEPT ![d].cards = Tail(@)]
        /\ found' = [found EXCEPT ![d] = NoCard]
        /\ cpc' = [cpc EXCEPT ![d] = "merge"]
        /\ UNCHANGED <<isSyncing, ret, lastSyncAt>>

\* sync() after the loop over result.data.cards: the serverTime is stored and
\* the call returns success
Finish(d) ==
    /\ cpc[d] = "merge"
    /\ reply[d].cards = << >>
    /\ lastSyncAt' = [lastSyncAt EXCEPT ![d] = reply[d].serverTime]
    /\ isSyncing' = [isSyncing EXCEPT ![d] = FALSE]
    /\ cpc' = [cpc EXCEPT ![d] = "idle"]
    /\ ret' = [ret EXCEPT ![d] = "ok"]
    /\ reply' = [reply EXCEPT ![d] = NoReply]
    /\ UNCHANGED <<local, nextId, found>>

\* the device whose SyncService is followed
Phone == "A"

\* the cards a response can carry for device d: versions of a card of another
\* device and of the cards the device has sent
ServerCards(d) ==
    [id : {"7"}, syncId : {"s1"} \cup (SyncIdsOf(local[d]) \ {""}),
     name : {"srv"}, isDeleted : {FALSE}, createdAt : {0}, updatedAt : Times]

\* result.data of a response: no card, one card, or two cards of one
\* updatedAt with different syncIds (sync_id is UNIQUE in the server's table)
Replies(d) ==
    { [cards |-> cs, serverTime |-> now] :
        cs \in { << >> } \cup { <<c>> : c \in ServerCards(d) }
               \cup UNION { { <<c1, c2>> :
                                 c2 \in { c \in ServerCards(d) :
                                            /\ c.syncId # c1.syncId
                                            /\ c.updatedAt = c1.updatedAt } } :
                             c1 \in ServerCards(d) } }

(* --------------------------- specifications -------------------------- *)
Init ==
    /\ cards = {}
    /\ uuidCount = 0
    /\ now = 0
    /\ ops = 0
    /\ pc = [h \in Handlers |-> "idle"]
    /\ size = [h \in Handlers |-> 0]
    /\ left = [h \in Handlers |-> 0]
    /\ since = [h \in Handlers |-> 0]
    /\ serverTime = [h \in Handlers |-> 0]
    /\ card = [h \in Handlers |-> NoCard]
    /\ resp = [h \in Handlers |-> << >>]
    /\ err = [h \in Handlers |-> FALSE]
    /\ lastIn = NoCard
    /\ repeat = FALSE
    /\ hi = [s \in AllSyncIds |-> -1]
    /\ top = [s \in AllSyncIds |-> {}]
    /\ lastSyncAt = [h \in Handlers |-> 0]
    /\ began = FALSE
    /\ owed = {}
    /\ due = {}
    /\ acc = [h \in Handlers |-> {}]
    /\ pb = NoBill
    /\ accts = << >>
    /\ mr = NoMatch
    /\ stmts = {}
    /\ bpc = "idle"
    /\ inbox = << >>
    /\ saved = 0
    /\ skipped = 0
    /\ bs = NoStatement
    /\ added = 0
    /\ session = "none"
    /\ broken = FALSE
    /\ emailConfig = NoConfig
    /\ cresp = NoAnswer
    /\ mbox = 0
    /\ seqset = NoRange
    /\ parts = << >>
    /\ total = 0
    /\ msg = NoMsg
    /\ parsed = "none"
    /\ local = [d \in Handlers |-> {}]
    /\ nextId = [d \in Handlers |-> 0]
    /\ isSyncing = [d \in Handlers |-> FALSE]
    /\ cpc = [d \in Handlers |-> "idle"]
    /\ reply = [d \in Handlers |-> NoReply]
    /\ found = [d \in Handlers |-> NoCard]
    /\ ret = [d \in Handlers |-> "none"]
    /\ key = NoKey
    /\ salt = NoSalt
    /\ vault = {}
    /\ out = NoOut
    /\ binfo = NoInfo
    /\ quiet = << >>

\* the table under the statements the endpoints run on it, in any order
Next ==
    \/ Tick /\ UNCHANGED <<cards, uuidCount, hvars, gvars, rvars, cvars, avars, mvars, bvars, ovars>>
    \/ \E c \in InCards :
          LoopBody(c) /\ Rest /\ NoteSync(c) /\ UNCHANGED <<rvars, cvars, avars, mvars, bvars, ovars>>
    \/ \E c \in InCards \cup BlankCards :
          createCard(c) /\ Rest /\ NoteRest /\ UNCHANGED <<rvars, cvars, avars, mvars, bvars, ovars>>
    \/ \E id \in RowIds, c \in InCards :
          updateCard(id, c) /\ Rest /\ NoteRest /\ UNCHANGED <<rvars, cvars, avars, mvars, bvars, ovars>>
    \/ \E id \in PathIds :
          deleteCard(id) /\ Rest /\ NoteRest /\ UNCHANGED <<rvars, cvars, avars, mvars, bvars, ovars>>

Spec == Init /\ [][Next]_vars

\* sync requests served concurrently.  The handlers are anonymous goroutines:
\* a request is given to A, and to B when A is busy.  No statement of
\* syncCards but the one that fills serverTime reads the clock, which stands.
NextSync ==
    \/ \E h \in Handlers, n \in 0..MaxBatch :
          /\ h = "B" => pc["A"] # "idle"
          /\ SyncBegin(h, n)
          /\ UNCHANGED <<gvars, rvars, cvars, avars, mvars, bvars, ovars>>
    \/ \E h \in Handlers, n \in 0..MaxBatch :
          /\ h = "B" => pc["A"] # "idle"
          /\ SyncReject(h, n)
          /\ UNCHANGED <<gvars, rvars, cvars, avars, mvars, bvars, ovars>>
    \/ \E h \in Handlers :
          SyncFail(h) /\ UNCHANGED <<gvars, rvars, cvars, avars, mvars, bvars, ovars>>
    \/ \E h \in Handlers, c \in RaceCards :
          /\ SyncUpsert(h, c) /\ RaceSync(card'[h]) /\ NoteAcc(h)
          /\ UNCHANGED <<gvars, cvars, mvars, bvars, ovars>>
    \/ \E h \in Handlers, t \in Marks :
          /\ SyncRead(h, t)
          /\ acc' = [acc EXCEPT ![h] = {}]
          /\ UNCHANGED <<gvars, rvars, cvars, mvars, bvars, ovars>>
    \/ \E h \in Handlers :
          /\ SyncRespond(h)
          /\ UNCHANGED <<gvars, rvars, cvars, avars, mvars, bvars, ovars>>

SpecSync == Init /\ [][NextSync]_vars

\* the matcher called on every message and every list of cards
NextMatch ==
    \/ /\ pb = NoBill
       /\ \E raw \in RawNumbers, tail \in MaskedTails, name \in MsgNames :
            \E n \in 0..MaxAccts : \E cs \in AccountLists(n) :
                /\ MatchCall(raw, tail, name, cs)
                /\ UNCHANGED <<cards, uuidCount, now, hvars, gvars, rvars,
                               cvars, avars, bvars, ovars>>
    \/ /\ MatchReturn
       /\ UNCHANGED <<cards, uuidCount, now, hvars, gvars, rvars, cvars,
                      avars, bvars, ovars>>

SpecMatch == Init /\ [][NextMatch]_vars

\* the window computed for every size of the mailbox
NextWindow ==
    \/ /\ \E n \in 0..(FetchCap + MaxOver) : WindowCall(n)
       /\ UNCHANGED <<cards, uuidCount, now, hvars, gvars, rvars, cvars,
                      avars, mvars, bvars, svars, kvars, parts, nvars>>
    \/ /\ WindowReturn
       /\ UNCHANGED <<cards, uuidCount, now, hvars, gvars, rvars, cvars,
                      avars, mvars, bvars, svars, kvars, parts, nvars>>

SpecWindow == Init /\ [][NextWindow]_vars

\* the excerpt of every text about the cap
NextExcerpt ==
    \/ /\ pb = NoBill
       /\ \E s \in Texts : ExcerptCall(s)
       /\ UNCHANGED <<cards, uuidCount, now, hvars, gvars, rvars, cvars,
                      avars, accts, mr, stmts, bpc, inbox, saved, skipped,
                      added, total, ovars>>
    \/ /\ ExcerptReturn
       /\ UNCHANGED <<cards, uuidCount, now, hvars, gvars, rvars, cvars,
                      avars, accts, mr, stmts, bpc, inbox, saved, skipped,
                      added, total, ovars>>

SpecExcerpt == Init /\ [][NextExcerpt]_vars

\* save, read-back and test requests in any order
NextConfig ==
    \/ /\ handleGetEmailConfig
       /\ UNCHANGED <<cards, uuidCount, now, hvars, gvars, rvars, cvars,
                      avars, mvars, bvars, svars, xvars, nvars>>
    \/ /\ \E body \in ConfigBodies : handleSaveEmailConfig(body)
       /\ UNCHANGED <<cards, uuidCount, now, hvars, gvars, rvars, cvars,
                      avars, mvars, bvars, svars, xvars, nvars>>
    \/ /\ \E body \in ConfigBodies, outcome \in {"ok", "dial", "login"} :
            handleTestEmailConfig(body, outcome)
       /\ UNCHANGED <<cards, uuidCount, now, hvars, gvars, rvars, cvars,
                      avars, mvars, bvars, svars, xvars, nvars>>

SpecConfig == Init /\ [][NextConfig]_vars

\* every message of at most MaxParts parts parsed
NextParts ==
    \/ /\ pb = NoBill
       /\ \E ps \in PartLists(MaxParts) : PartsCall(ps)
       /\ UNCHANGED <<cards, uuidCount, now, hvars, gvars, rvars, cvars,
                      avars, accts, mr, bvars, svars, kvars, mbox, seqset,
                      nvars>>
    \/ /\ PartsReturn
       /\ UNCHANGED <<cards, uuidCount, now, hvars, gvars, rvars, cvars,
                      avars, accts, mr, bvars, svars, kvars, mbox, seqset,
                      nvars>>

SpecParts == Init /\ [][NextParts]_vars

\* every message parsed
NextParse ==
    \/ /\ parsed = "none"
       /\ \E m \in Messages : \E bank \in {"", "CMB", "ICBC", "CMBC"} :
            ParseCall(m, bank)
       /\ UNCHANGED <<cards, uuidCount, now, hvars, gvars, rvars, cvars,
                      avars, accts, mr, stmts, bpc, saved, skipped, bs,
                      added, svars, kvars, mbox, seqset, dvars, uvars>>
    \/ /\ ParseReturn
       /\ UNCHANGED <<cards, uuidCount, now, hvars, gvars, rvars, cvars,
                      avars, accts, mr, stmts, bpc, saved, skipped, bs,
                      added, svars, kvars, mbox, seqset, dvars, uvars>>

SpecParse == Init /\ [][NextParse]_vars

\* one device: the user adds, edits and deletes cards and calls sync() and
\* forceFullSync() at any moment, the calls in flight move on, and the server
\* answers what it will
NextService ==
    \/ /\ Tick
       /\ UNCHANGED <<cards, uuidCount, hvars, gvars, rvars, cvars, avars,
                      mvars, bvars, svars, kvars, xvars, evars, dvars, uvars>>
    \/ /\ \E frac \in Fracs : useCardsAdd(Phone, frac)
       /\ Rest
       /\ UNCHANGED <<cards, uuidCount, gvars, rvars, cvars, avars, mvars,
                      bvars, svars, kvars, xvars, evars, uvars, isSyncing, cpc,
                      reply, found, ret>>
    \/ /\ \E id \in 1..Len(KeyNames) : useCardsUpdate(Phone, id, 500)
       /\ Rest
       /\ UNCHANGED <<cards, uuidCount, gvars, rvars, cvars, avars, mvars,
                      bvars, svars, kvars, xvars, evars, uvars, isSyncing, cpc,
                      reply, found, ret>>
    \/ /\ \E id \in 1..Len(KeyNames) : useCardsDelete(Phone, id, 0)
       /\ Rest
       /\ UNCHANGED <<cards, uuidCount, gvars, rvars, cvars, avars, mvars,
                      bvars, svars, kvars, xvars, evars, uvars, isSyncing, cpc,
                      reply, found, ret>>
    \/ /\ SyncCall(Phone)
       /\ Rest
       /\ UNCHANGED <<cards, uuidCount, gvars, rvars, cvars, avars, mvars,
                      bvars, svars, kvars, xvars, evars, uvars>>
    \/ /\ forceFullSync(Phone)
       /\ Rest
       /\ UNCHANGED <<cards, uuidCount, gvars, rvars, began, owed, due, avars,
                      mvars, bvars, svars, kvars, xvars, evars, uvars>>
    \/ /\ Collect(Phone)
       /\ UNCHANGED <<cards, now, hvars, gvars, rvars, began, owed, due,
                      avars, mvars, bvars, svars, kvars, xvars, evars, uvars>>
    \/ /\ \E r \in Replies(Phone) : SendOk(Phone, r)
       /\ UNCHANGED <<cards, uuidCount, now, hvars, gvars, rvars, began, owed,
                      due, avars, mvars, bvars, svars, kvars, xvars, evars, uvars>>
    \/ /\ SendNoData(Phone)
       /\ UNCHANGED <<cards, uuidCount, now, hvars, gvars, rvars, began, owed,
                      due, avars, mvars, bvars, svars, kvars, xvars, evars, uvars>>
    \/ /\ Throw(Phone)
       /\ UNCHANGED <<cards, uuidCount, now, hvars, gvars, rvars, began, owed,
                      due, avars, mvars, bvars, svars, kvars, xvars, evars, uvars>>
    \/ /\ MergeFind(Phone)
       /\ UNCHANGED <<cards, uuidCount, now, hvars, gvars, rvars, began, owed,
                      due, avars, mvars, bvars, svars, kvars, xvars, evars, uvars>>
    \/ /\ MergeApply(Phone)
       /\ UNCHANGED <<cards, uuidCount, now, hvars, gvars, rvars, began, owed,
                      due, avars, mvars, bvars, svars, kvars, xvars, evars, uvars>>
    \/ /\ Finish(Phone)
       /\ UNCHANGED <<cards, uuidCount, now, hvars, gvars, rvars, began, owed,
                      due, avars, mvars, bvars, svars, kvars, xvars, evars, uvars>>

SpecService == Init /\ [][NextService]_vars

\* the database file of an ingestion run: table cards as the syncs have left
\* it, table bill_statements empty
InitBills ==
    /\ cards \in AccountTables
    /\ uuidCount = 0
    /\ now = 0
    /\ ops = 0
    /\ pc = [h \in Handlers |-> "idle"]
    /\ size = [h \in Handlers |-> 0]
    /\ left = [h \in Handlers |-> 0]
    /\ since = [h \in Handlers |-> 0]
    /\ serverTime = [h \in Handlers |-> 0]
    /\ card = [h \in Handlers |-> NoCard]
    /\ resp = [h \in Handlers |-> << >>]
    /\ err = [h \in Handlers |-> FALSE]
    /\ lastIn = NoCard
    /\ repeat = FALSE
    /\ hi = [s \in AllSyncIds |-> -1]
    /\ top = [s \in AllSyncIds |-> {}]
    /\ lastSyncAt = [h \in Handlers |-> 0]
    /\ began = FALSE
    /\ owed = {}
    /\ due = {}
    /\ acc = [h \in Handlers |-> {}]
    /\ pb = NoBill
    /\ accts = << >>
    /\ mr = NoMatch
    /\ stmts = {}
    /\ bpc = "idle"
    /\ inbox = << >>
    /\ saved = 0
    /\ skipped = 0
    /\ bs = NoStatement
    /\ added = 0
    /\ session = "none"
    /\ broken = FALSE
    /\ emailConfig \in {NoConfig, StoredConfig}
    /\ cresp = NoAnswer
    /\ mbox = 0
    /\ seqset = NoRange
    /\ parts = << >>
    /\ total = 0
    /\ msg = NoMsg
    /\ parsed = "none"
    /\ local = [d \in Handlers |-> {}]
    /\ nextId = [d \in Handlers |-> 0]
    /\ isSyncing = [d \in Handlers |-> FALSE]
    /\ cpc = [d \in Handlers |-> "idle"]
    /\ reply = [d \in Handlers |-> NoReply]
    /\ found = [d \in Handlers |-> NoCard]
    /\ ret = [d \in Handlers |-> "none"]
    /\ key = NoKey
    /\ salt = NoSalt
    /\ vault = {}
    /\ out = NoOut
    /\ binfo = NoInfo
    /\ quiet = << >>

\* ingestion runs one after the other, each over a mailbox that holds the
\* messages 1..to, and
\* each counted as one request, with sync requests served meanwhile; the
\* clock is read as it stands between the requests
NextBills ==
    \/ /\ Tick
       /\ bpc = "idle" /\ pc[Teller] = "idle"
       /\ UNCHANGED <<cards, uuidCount, hvars, gvars, rvars, cvars, avars,
                      mvars, bvars, ovars>>
    \/ FetchNoConfig /\ Rest
       /\ UNCHANGED <<cards, uuidCount, gvars, rvars, cvars, avars, kvars, xvars, nvars>>
    \/ (\E ok \in BOOLEAN : FetchDial(ok)) /\ Rest
       /\ UNCHANGED <<cards, uuidCount, gvars, rvars, cvars, avars, kvars, xvars, nvars>>
    \/ (\E ok \in BOOLEAN : FetchLogin(ok))
       /\ UNCHANGED <<cards, uuidCount, now, hvars, gvars, rvars, cvars, avars,
                      kvars, xvars, nvars>>
    \/ (\E ok \in BOOLEAN : FetchSelect(ok))
       /\ UNCHANGED <<cards, uuidCount, now, hvars, gvars, rvars, cvars, avars,
                      kvars, xvars, nvars>>
    \/ FetchFail
       /\ UNCHANGED <<cards, uuidCount, now, hvars, gvars, rvars, cvars, avars,
                      kvars, xvars, nvars>>
    \/ /\ bpc = "fetch"
       /\ \E to \in 0..MaxUid :
            \E k \in 0..MaxUid, e \in BOOLEAN :
                FetchRetrieve(Max(1, SeqSetOf(to).from), to, k, e)
       /\ UNCHANGED <<cards, uuidCount, now, hvars, gvars, rvars, cvars, avars,
                      kvars, xvars, nvars>>
    \/ (\E ok \in BOOLEAN : FetchStep(ok))
       /\ UNCHANGED <<uuidCount, now, hvars, gvars, rvars, cvars, avars, kvars,
                      xvars, nvars>>
    \/ FetchRespond
       /\ UNCHANGED <<cards, uuidCount, now, hvars, gvars, rvars, cvars, avars,
                      kvars, xvars, nvars>>
    \/ FetchReturn
       /\ UNCHANGED <<cards, uuidCount, now, hvars, gvars, rvars, cvars, avars,
                      kvars, xvars, nvars>>

    \/ \E n \in 0..MaxBatch :
          /\ SyncBegin(Teller, n)
          /\ UNCHANGED <<gvars, rvars, cvars, avars, mvars, bvars, svars, kvars,
                         xvars, nvars>>
    \/ \E c \in LedgerCards :
          /\ SyncUpsert(Teller, c)
          /\ UNCHANGED <<gvars, rvars, cvars, avars, mvars, bvars, svars, kvars,
                         xvars, nvars>>
    \/ /\ SyncRead(Teller, MaxTime)
       /\ UNCHANGED <<gvars, rvars, cvars, avars, mvars, bvars, svars, kvars,
                      xvars, nvars>>
    \/ /\ SyncRespond(Teller)
       /\ UNCHANGED <<gvars, rvars, cvars, avars, mvars, bvars, svars, kvars,
                      xvars, nvars>>

SpecBills == InitBills /\ [][NextBills]_vars

\* the devices send the lastSyncAt they stored and store the serverTime of
\* every response (SyncService.sync)
NextClient ==
    \/ Tick /\ UNCHANGED <<cards, uuidCount, hvars, gvars, rvars, cvars, avars, mvars, bvars, ovars>>
    \/ \E h \in Handlers, n \in 0..MaxBatch :
          /\ SyncBegin(h, n)
          /\ Track(h)
          /\ UNCHANGED <<gvars, rvars, lastSyncAt, avars, mvars, bvars, ovars>>
    \/ \E h \in Handlers : \E c \in CardsOf(h) :
          SyncUpsert(h, c) /\ Track(h) /\ UNCHANGED <<gvars, rvars, lastSyncAt, avars, mvars, bvars, ovars>>
    \/ \E h \in Handlers :
          SyncRead(h, lastSyncAt[h]) /\ Track(h) /\ UNCHANGED <<gvars, rvars, lastSyncAt, avars, mvars, bvars, ovars>>
    \/ \E h \in Handlers :
          /\ SyncRespond(h)
          /\ lastSyncAt' = [lastSyncAt EXCEPT ![h] = serverTime[h]]
          /\ Track(h)
          /\ UNCHANGED <<gvars, rvars, avars, mvars, bvars, ovars>>
    \/ \E c \in InCards :
          /\ createCard(c) /\ Rest /\ Track("rest")
          /\ UNCHANGED <<gvars, rvars, lastSyncAt, avars, mvars, bvars, ovars>>
    \/ \E id \in RowIds, c \in InCards :
          /\ updateCard(id, c) /\ Rest /\ Track("rest")
          /\ UNCHANGED <<gvars, rvars, lastSyncAt, avars, mvars, bvars, ovars>>
    \/ \E id \in PathIds :
          /\ deleteCard(id) /\ Rest /\ Track("rest")
          /\ UNCHANGED <<gvars, rvars, lastSyncAt, avars, mvars, bvars, ovars>>

SpecClient == Init /\ [][NextClient]_vars

(* ------------------- the table, statement by statement --------------- *)
\* the step runs the loop body of syncCards on the card lastIn'
IsSyncStep == ops' # ops /\ lastIn' # NoCard

\* C1: an incoming record whose syncId is absent from the store is inserted;
\* one whose syncId is present replaces the stored fields, id and createdAt
\* kept, if and only if its updatedAt is greater than the stored updatedAt,
\* and otherwise the store is left unchanged
C1_UpsertRule ==
    [][IsSyncStep =>
        LET x == Effective(lastIn', uuidCount) IN
        IF ~HasSync(cards, x.syncId) THEN cards' = cards \cup {x}
        ELSE LET r == RowOf(cards, x.syncId) IN
             IF x.updatedAt > r.updatedAt
             THEN cards' = (cards \ {r}) \cup
                           {[x EXCEPT !.id = r.id, !.createdAt = r.createdAt]}
             ELSE cards' = cards]_vars

\* the write w is what the table holds for its syncId
Holds(tbl, w) ==
    \E r \in tbl : /\ r.syncId = w.syncId
                   /\ r.name = w.name
                   /\ r.isDeleted = w.isDeleted
                   /\ r.updatedAt = w.updatedAt

\* C5: two writes to one syncId with updatedAt t1 < t2, put through the
\* upsert in either order on a table that holds nothing as new as t2 for that
\* syncId, leave the table holding the field values of the t2 write
C5_LastWriterWins ==
    \A w1, w2 \in InCards :
        ( /\ w1.syncId = w2.syncId
          /\ w1.syncId # ""
          /\ w1.updatedAt < w2.updatedAt
          /\ \A r \in cards : r.syncId = w2.syncId => r.updatedAt < w2.updatedAt )
        => /\ Holds(upsertCard(upsertCard(cards, w1), w2), w2)
           /\ Holds(upsertCard(upsertCard(cards, w2), w1), w2)

\* C7: the loop body run a second time on the same incoming card (the same
\* syncId or the same empty syncId, the same fields, the same updatedAt)
\* right after the first leaves the table as it was: the same rows with the
\* same field values
C7_MergeIdempotent == [][(IsSyncStep /\ repeat') => cards' = cards]_vars

\* a card without syncId has been sent twice running and is stored once
C7_Witness ==
    /\ repeat
    /\ lastIn.syncId = ""
    /\ \E r \in cards : /\ r.id = lastIn.id
                        /\ r.name = lastIn.name
                        /\ r.updatedAt = lastIn.updatedAt
    /\ Cardinality({ r \in cards : r.id = lastIn.id }) = 1

\* C8: for every syncId the stored updatedAt never decreases, whichever
\* statement writes the table: a sync upsert, a PUT update or a DELETE
C8_UpdatedAtMonotone ==
    [][\A r \in cards : \A q \in cards' :
          q.syncId = r.syncId => q.updatedAt >= r.updatedAt]_vars

\* the step offers a card whose updatedAt equals the stored updatedAt of its
\* syncId
IsTieStep ==
    /\ IsSyncStep
    /\ \E r \in cards : /\ r.syncId = lastIn'.syncId
                        /\ r.updatedAt = lastIn'.updatedAt

\* C9 as stated: of two writes to one syncId with equal updatedAt the table
\* ends up holding the one it observed last
C9_TieLastWins == [][IsTieStep => Holds(cards', lastIn')]_vars

\* C9: a write whose updatedAt equals the stored updatedAt of its syncId
\* changes nothing: the table keeps the write it observed first
C9_TieFirstWins == [][IsTieStep => cards' = cards]_vars

\* the latest statement offered other content at the stored updatedAt, and
\* the stored content stands
C9_Witness ==
    /\ lastIn # NoCard
    /\ \E r \in cards : /\ r.syncId = lastIn.syncId
                        /\ r.updatedAt = lastIn.updatedAt
                        /\ ContentOf(r) # ContentOf(lastIn)

(* ----------------------- sync requests in flight --------------------- *)
\* handler h runs getCardsSince in the step
IsReadStep(h) == pc[h] = "upsert" /\ pc'[h] = "respond"

\* C2: for every sync call and every watermark the returned list holds a
\* row R of the table, soft-deleted ones included, if and only if
\* R.updatedAt > watermark, on the table as it is after all the cards of the
\* call were applied, and the list is ordered by updatedAt descending
C2_DeltaComplete ==
    [][\A h \in Handlers : IsReadStep(h) =>
          LET d == resp'[h] IN
          /\ left[h] = 0
          /\ \A r \in cards :
                (\E i \in DOMAIN d : d[i] = r) <=> r.updatedAt > since'[h]
          /\ \A i \in DOMAIN d : d[i] \in cards
          /\ \A i, j \in DOMAIN d :
                i < j => d[i] # d[j] /\ d[i].updatedAt >= d[j].updatedAt]_vars

\* a response lists a newer row before an older one, a soft-deleted row
\* among them
C2_Witness ==
    \E h \in Handlers :
        /\ pc[h] = "respond"
        /\ Len(resp[h]) >= 2
        /\ resp[h][1].updatedAt > resp[h][2].updatedAt
        /\ \E i \in DOMAIN resp[h] : resp[h][i].isDeleted

\* C6: when sync requests served concurrently carry cards for one syncId,
\* the stored row is, after every upsert of every interleaving, the version
\* with the largest updatedAt among the version stored before and the
\* versions offered: no offered version that should win is lost
C6_NoLostUpdate ==
    \A r \in cards :
        /\ r.updatedAt = hi[r.syncId]
        /\ ContentOf(r) \in top[r.syncId]

\* both handlers are in their loops and have offered different versions of
\* a row that was stored before either version was made
C6_Witness ==
    /\ pc["A"] = "upsert" /\ pc["B"] = "upsert"
    /\ card["A"] # NoCard /\ card["B"] # NoCard
    /\ card["A"].syncId = card["B"].syncId
    /\ card["A"] # card["B"]
    /\ \E r \in cards : /\ r.syncId = card["A"].syncId
                        /\ r.createdAt < card["A"].updatedAt
                        /\ r.createdAt < card["B"].updatedAt

\* handler h reads the delta for a request of one card that came without
\* syncId and with updatedAt 0, at watermark 0
IsFirstSync(h) ==
    /\ IsReadStep(h)
    /\ size[h] = 1
    /\ card[h] # NoCard
    /\ card[h].syncId \in Range(UuidNames)
    /\ card[h].updatedAt = 0
    /\ since'[h] = 0

C3_AtLeastOnce == pc[Observer] = "respond" => due = {}

\* C4: after the upsert of an incoming card its syncId is in the table,
\* whatever other rows the table holds and whatever the card's other fields
\* are, the device-local id that two devices share included
C4_DistinctSyncIdsStored ==
    \A h \in Handlers :
        (pc[h] = "upsert" /\ card[h] # NoCard) => HasSync(cards, card[h].syncId)

(* ---------------- sync requests: validation and batches -------------- *)
\* C11: a sync request whose payload is malformed is rejected as a whole
\* with an error response and leaves the table unchanged: validation fails
\* before the first upsert, and no card of the request is upserted
C11_AllOrNothing ==
    [][\A h \in Handlers :
          /\ err'[h] => /\ pc'[h] = "reject"
                        /\ left'[h] = 0
                        /\ card'[h] = NoCard
                        /\ acc'[h] = {}
          /\ (pc[h] = "idle" /\ err'[h]) => cards' = cards]_vars

\* a request has been refused while the other handler is in its loop
C11_Witness ==
    \E h, g \in Handlers :
        err[h] /\ pc[h] = "reject" /\ pc[g] = "upsert" /\ card[g] # NoCard

\* C12: a concurrently served sync call never observes a partial
\* application of another call's batch: when it reads its delta while the
\* other call has applied some but not all of its cards, the delta holds no
\* row version the other call has written
C12_BatchVisibility ==
    [][\A h, g \in Handlers :
          ( /\ IsReadStep(h)
            /\ g # h
            /\ pc[g] = "upsert"
            /\ 0 < left[g] /\ left[g] < size[g] )
          => \A x \in acc[g] : \A i \in DOMAIN resp'[h] : resp'[h][i] # x]_vars

\* C13 as stated: the delta is computed after the last card of the call was
\* applied, and every card the upsert rule accepted with updatedAt above the
\* watermark is in the same call's delta in its accepted version
C13_OwnEditsReturned ==
    [][\A h \in Handlers : IsReadStep(h) =>
          /\ left[h] = 0
          /\ \A x \in acc[h] : x.updatedAt > since'[h] =>
                \E i \in DOMAIN resp'[h] : resp'[h][i] = x]_vars

\* C13: the delta is computed after the last card of the call was applied,
\* and for every card the upsert rule accepted with updatedAt above the
\* watermark the same call's delta holds the row in the accepted version or
\* in a newer version that a later write has put over it
C13_OwnEditsOrNewer ==
    [][\A h \in Handlers : IsReadStep(h) =>
          /\ left[h] = 0
          /\ \A x \in acc[h] : x.updatedAt > since'[h] =>
                \E i \in DOMAIN resp'[h] :
                    /\ resp'[h][i].syncId = x.syncId
                    /\ resp'[h][i] = x \/ resp'[h][i].updatedAt > x.updatedAt]_vars

\* a handler has ended its loop and a version it wrote has since been
\* overwritten by the other handler's card
C13_Witness ==
    \E h, g \in Handlers :
        /\ pc[h] = "upsert" /\ left[h] = 0
        /\ g # h /\ pc[g] = "upsert" /\ card[g] # NoCard
        /\ \E x \in acc[h] :
              /\ x \notin cards
              /\ card[g].syncId = x.syncId
              /\ card[g].updatedAt > x.updatedAt
              /\ Holds(cards, card[g])

\* C14: no sync, create, update or delete request removes a row from the
\* table: every stored row keeps its id and syncId, so the set of stored
\* syncIds only grows, and a row flagged deleted stays stored
C14_RowsRetained ==
    [][/\ \A r \in cards : \E q \in cards' : q.id = r.id /\ q.syncId = r.syncId
       /\ SyncIdsOf(cards) \subseteq SyncIdsOf(cards')]_vars

\* a row that was written with the live content is stored flagged deleted at
\* the time of a later DELETE request
C14_Witness ==
    \E r \in cards :
        /\ r.isDeleted /\ r.name = "a"
        /\ r.updatedAt > r.createdAt
        /\ lastIn = NoCard

(* ------------------------------ the matcher -------------------------- *)
\* the matcher has been called and has not returned
Called == pb # NoBill

\* the places in the list of the cards that are candidates of each tier
FullCandidates ==
    { i \in DOMAIN accts :
        /\ ~accts[i].isDeleted
        /\ pb.fullCardNumber # << >>
        /\ accts[i].lastFour # << >>
        /\ accts[i].lastFour = Last4(pb.fullCardNumber) }
MaskCandidates ==
    { i \in DOMAIN accts :
        /\ ~accts[i].isDeleted
        /\ pb.lastFourFromMsg # << >>
        /\ accts[i].lastFour # << >>
        /\ accts[i].lastFour = pb.lastFourFromMsg }
NameCandidates ==
    { i \in DOMAIN accts :
        /\ ~accts[i].isDeleted
        /\ pb.holderName # << >>
        /\ normalizeChineseName(accts[i].cardholderName)
             = normalizeChineseName(pb.holderName) }
First(S) == CHOOSE i \in S : \A j \in S : i <= j
CardsAt(S) == { accts[i] : i \in S }

\* C17: the tiers are asked in the order full card, masked tail, name, and
\* the result is that of the first tier with a candidate, never a lower
\* one's: a full card number whose last four match a card gives that card
\* with full_card and high whatever the name matches
C17_MatchPriority ==
    Called =>
        /\ FullCandidates # {} =>
              mr = Found(accts[First(FullCandidates)], "full_card", "high")
        /\ (FullCandidates = {} /\ MaskCandidates # {}) =>
              /\ mr.found /\ mr.matchedBy = "last_four"
              /\ mr.card \in CardsAt(MaskCandidates)
        /\ (FullCandidates = {} /\ MaskCandidates = {} /\ NameCandidates # {}) =>
              /\ mr.found /\ mr.matchedBy = "name"
              /\ mr.card \in CardsAt(NameCandidates)
        /\ (FullCandidates = {} /\ MaskCandidates = {} /\ NameCandidates = {}) =>
              ~mr.found

\* the full card number matches one card, the name another card that stands
\* before it in the list, and the first is returned
C17_Witness ==
    /\ Called
    /\ \E a \in FullCandidates, b \in NameCandidates :
          /\ b < a
          /\ a \notin NameCandidates /\ b \notin FullCandidates
          /\ mr.card = accts[a] /\ mr.matchedBy = "full_card"
          /\ mr.confidence = "high"

\* C18: when the masked tier or the name tier is reached, one candidate
\* gives medium (masked) or low (name), two or more give ambiguous with the
\* first candidate in the order of the list; the result is a function of
\* the message and the list
C18_CandidateCounting ==
    (Called /\ FullCandidates = {}) =>
        /\ Cardinality(MaskCandidates) = 1 =>
              mr = Found(accts[First(MaskCandidates)], "last_four", "medium")
        /\ Cardinality(MaskCandidates) >= 2 =>
              mr = Found(accts[First(MaskCandidates)], "last_four", "ambiguous")
        /\ (MaskCandidates = {} /\ Cardinality(NameCandidates) = 1) =>
              mr = Found(accts[First(NameCandidates)], "name", "low")
        /\ (MaskCandidates = {} /\ Cardinality(NameCandidates) >= 2) =>
              mr = Found(accts[First(NameCandidates)], "name", "ambiguous")

\* the masked tail is that of two cards and the first of them is returned
\* as ambiguous
C18_Witness ==
    /\ Called
    /\ FullCandidates = {}
    /\ Cardinality(MaskCandidates) >= 2
    /\ mr.card = accts[First(MaskCandidates)]
    /\ mr.confidence = "ambiguous"

\* C19 as stated: whenever the tail of the message is the lastFour of two
\* or more cards that are not deleted, the confidence is ambiguous, whatever
\* else the message carries
C19_AlwaysAmbiguous ==
    (Called /\ Cardinality(MaskCandidates) >= 2) => mr.confidence = "ambiguous"

\* C19: whenever no full card number was extracted from the message and its
\* tail is the lastFour of two or more cards that are not deleted, the
\* confidence is ambiguous with matchedBy last_four, whatever name the
\* message carries
C19_AmbiguousWithoutFullCard ==
    (Called /\ pb.fullCardNumber = << >> /\ Cardinality(MaskCandidates) >= 2) =>
        mr.found /\ mr.matchedBy = "last_four" /\ mr.confidence = "ambiguous"

\* a message with a tail and a name, the tail that of two cards, the name
\* that of one of them only
C19_Witness ==
    /\ Called
    /\ pb.fullCardNumber = << >>
    /\ Cardinality(MaskCandidates) >= 2
    /\ Cardinality(NameCandidates) = 1
    /\ mr.confidence = "ambiguous"

\* the list without its deleted cards
Live(cs) == SelectSeq(cs, LAMBDA c : c.isDeleted = FALSE)

\* C20: the card the matcher returns is not deleted, and the result is the
\* one the list without its deleted cards gives
C20_DeletedIgnored ==
    Called =>
        /\ mr.found => ~mr.card.isDeleted
        /\ mr = matchBillToCard(pb, Live(accts))

\* a deleted card with the tail of the message stands before the card that
\* is returned
C20_Witness ==
    /\ Called
    /\ mr.found
    /\ \E i, j \in DOMAIN accts :
          /\ i < j
          /\ accts[i].isDeleted
          /\ accts[i].lastFour = pb.lastFourFromMsg
          /\ pb.lastFourFromMsg # << >>
          /\ mr.card = accts[j]

(* ---------------------------- bill statements ------------------------ *)
\* the step saved a statement
IsSaveStep == saved' = saved + 1

\* C15: saving a statement whose email UID is stored leaves the table as it
\* is; whatever runs there were, there is at most one row for a UID, and a
\* stored row is never changed or removed
C15_StatementDedup ==
    [][/\ \A r \in stmts : r \in stmts'
       /\ \A r1, r2 \in stmts' : r1.uid = r2.uid => r1 = r2
       /\ (IsSaveStep /\ \E r \in stmts : r.uid = bs'.uid) => stmts' = stmts]_vars

\* a later run has built another statement for a stored UID and the table
\* has kept the first
C15_Witness ==
    /\ bs # NoStatement
    /\ bs \notin stmts
    /\ \E r \in stmts : r.uid = bs.uid /\ r.fetchedAt < bs.fetchedAt

\* C16: a save of a stored UID is reported as not inserted, so the saved
\* count of a run is the number of rows the run has added
C16_SavedCountsInserted == bpc = "done" => saved = added

(* --------------------------- ingestion runs -------------------------- *)
\* the step takes a message of the loop of handleFetchBills
IsItemStep == bpc = "loop" /\ inbox' # inbox

\* the step is one of handleFetchBills
IsBillStep == bpc' # bpc \/ inbox' # inbox

\* no tier has a candidate for the message among the cards of the run
NoCandidate ==
    FullCandidates = {} /\ MaskCandidates = {} /\ NameCandidates = {}

Uids(tbl) == { r.uid : r \in tbl }

\* C21: a message for which no tier has a candidate stores no statement, and
\* every row a run stores carries the syncId of a card that is not deleted
\* in the list the run matches against
C21_NoMatchNoStatement ==
    [][/\ (IsItemStep /\ NoCandidate') => stmts' = stmts
       /\ \A r \in stmts' \ stmts :
             \E i \in DOMAIN accts :
                 accts[i].syncId = r.cardSyncId /\ ~accts[i].isDeleted]_vars

\* a run over a table that holds statements has just skipped a text message
\* that no card matches
C21_Witness ==
    /\ bpc = "loop"
    /\ pb # NoBill /\ pb.statementType # "pdf"
    /\ NoCandidate
    /\ mr = NoMatch
    /\ skipped > 0
    /\ stmts # {}

\* C22: no step of an ingestion run changes table cards, whatever it saves
\* and whatever sync requests write between its steps
C22_CardsReadOnly == [][IsBillStep => cards' = cards]_vars

\* a run that has saved a statement is in its loop while the sync handler
\* has just written a card
C22_Witness ==
    /\ bpc = "loop"
    /\ saved > 0
    /\ pc[Teller] = "upsert"
    /\ card[Teller] # NoCard
    /\ Holds(cards, card[Teller])

\* C24: once the connection is made, the session is logged out on every way
\* out of the fetch: it is open only while the fetch is between login and
\* retrieval
C24_SessionReleased ==
    /\ session = "open" => bpc \in {"login", "select", "fetch"}
    /\ bpc \in {"loop", "done"} => session = "closed"

\* the fetch has failed after the connection was made
C24_Witness == bpc = "failed" /\ session = "closed"

C26_PerItemIsolation ==
    [][/\ IsItemStep => (bpc' = "loop" /\ inbox' = Tail(inbox))
       /\ (bpc = "loop" /\ bpc' # "loop") => (inbox = << >> /\ bpc' = "done")
       /\ (pc[Teller] = "upsert" /\ card'[Teller] # card[Teller]
                                  /\ card'[Teller] # NoCard) =>
             (pc'[Teller] = "upsert" /\ left'[Teller] = left[Teller] - 1)
       /\ (pc[Teller] = "upsert" /\ pc'[Teller] # "upsert") =>
             (left[Teller] = 0 /\ pc'[Teller] = "respond")]_vars

\* a run has answered after a statement could not be saved and a later
\* message was taken, and the sync handler is in its loop with a card left
\* after the insert of card s2 has failed on the key of another row
C26_Witness ==
    /\ bpc = "done"
    /\ bs # NoStatement /\ bs.uid \notin Uids(stmts)
    /\ pb.uid > bs.uid
    /\ pc[Teller] = "upsert"
    /\ size[Teller] = 2 /\ left[Teller] = 1
    /\ card[Teller].syncId = "s2"
    /\ ~HasSync(cards, "s2")

(* ------------------------------ claim C23 ---------------------------- *)
Min(a, b) == IF a < b THEN a ELSE b

\* C23: for a mailbox of N messages the range asked for is
\* max(1, N - 99)..N, which holds the min(N, 100) highest sequence numbers;
\* for N = 0 no range is asked for and the empty list is returned without
\* an error.
C23_FetchWindow ==
    seqset # NoRange =>
        /\ ~seqset.err
        /\ mbox = 0 => ~seqset.asked
        /\ mbox > 0 =>
              /\ seqset.asked
              /\ seqset.to = mbox
              /\ seqset.from = Max(1, mbox - (FetchCap - 1))
              /\ seqset.to - seqset.from + 1 = Min(mbox, FetchCap)

C23_Witness ==
    /\ seqset # NoRange /\ seqset.asked
    /\ mbox = FetchCap + 1
    /\ seqset.from = 2 /\ seqset.to = mbox

IsCreateStep == uuidCount' = uuidCount + 2

ReadBack == cresp.asked /\ cresp.endpoint = "get" /\ cresp.found

\* C29: whatever save, read-back and test requests came before, the answer
\* of the read-back has no password field and no text field equal to the
\* stored password, and it is the answer every row differing from the
\* stored one in the password only would give.
C29_SecretNotReadBack ==
    ReadBack =>
        /\ "password" \notin DOMAIN cresp.data
        /\ \A f \in DOMAIN cresp.data \ {"id"} :
              cresp.data[f] # emailConfig.password
        /\ \A p \in Passwords :
              cresp.data = ConfigData([emailConfig EXCEPT !.password = p])

C29_Witness ==
    /\ ReadBack
    /\ emailConfig.password = "p2"
    /\ cresp.data.email = "e1" /\ cresp.data.imapHost = "imap.qq.com:993"

(* ------------------------------ claim C30 ---------------------------- *)
\* the content types of the parts read
Kinds == { parts[i].ct : i \in DOMAIN parts }

\* the text of a text part
TextOf(p) ==
    IF p.ct = "text/html" THEN stripHTML(decodeBody(p.data))
    ELSE decodeBody(p.data)

\* the texts of the text parts, in the order of the parts
TextsRead ==
    LET texts == SelectSeq(parts, LAMBDA p : p.ct \in {"text/plain", "text/html"})
    IN  [i \in DOMAIN texts |-> TextOf(texts[i])]

\* C30: whatever the order of the parts, a message with a text/plain part
\* and a text/html part and no PDF part is labelled text and its body is
\* the texts of both kinds of parts joined; a message is labelled html only
\* when it has an html part and no text/plain part.
C30_FormatLabel ==
    pb # NoBill =>
        /\ ({"text/plain", "text/html"} \subseteq Kinds
               /\ "application/pdf" \notin Kinds) =>
              (pb.statementType = "text" /\ pb.body = Join(TextsRead))
        /\ pb.statementType = "html" =>
              ("text/html" \in Kinds /\ "text/plain" \notin Kinds)

C30_Witness ==
    /\ pb # NoBill
    /\ Len(parts) = 2
    /\ parts[1].ct = "text/html" /\ parts[2].ct = "text/plain"
    /\ pb.statementType = "text"
    /\ pb.body = <<"h", "\n", "p">>

(* ------------------------------ claim C34 ---------------------------- *)
\* C34: in the summary of every completed run total = saved + skipped:
\* every message handed to the loop is counted once as saved or skipped, a
\* message whose statement could not be saved too.
C34_TotalIsSavedPlusSkipped ==
    bpc = "done" => total = saved + skipped

(* ------------------------------ claim C31 ---------------------------- *)
\* the parser has returned
Parsed == parsed # "none"

\* the message is in bills, with its sender and subject, and with an empty
\* text when its body could not be read
Kept ==
    /\ parsed = "record"
    /\ pb.from = msg.from /\ pb.subject = msg.subject
    /\ msg.body # "parts" => pb.body = << >>
    /\ inbox = <<pb>>
    /\ total = 1

C32_MaskedTailFallback ==
    parsed = "record" =>
        /\ pb.fullCardNumber = << >> =>
              pb.lastFourFromMsg =
                  IF reLastFour(pb.body) # << >> THEN reLastFour(pb.body)
                  ELSE reLastFour(msg.subject)
        /\ pb.fullCardNumber # << >> =>
              pb.lastFourFromMsg = Last4(pb.fullCardNumber)

(* ------------------------------ claim C33 ---------------------------- *)
\* the bank of the first key, in the order of the table, that matches
FirstBank(from, subject) ==
    LET d == { j \in DOMAIN DomainKeys : Contains(ToLower(from), DomainKeys[j]) }
        k == { j \in DOMAIN SubjectKeys :
                 \E n \in DOMAIN subject : subject[n] = SubjectKeys[j] }
        least(S) == CHOOSE j \in S : \A i \in S : j <= i
    IN  IF d # {} THEN DomainBanks[least(d)]
        ELSE IF k # {} THEN SubjectBanks[least(k)]
        ELSE ""

\* C33: the bank of a message whose fields are extracted is fixed by its
\* sender and subject: the bank of the first matching key of the domain
\* table, else of the first matching keyword of the subject table, else
\* empty, also when several keys match.
C33_BankDeterministic ==
    (parsed = "record" /\ msg.body = "parts") =>
        pb.bank = FirstBank(msg.from, msg.subject)

(* ------------------------- the client, call by call ------------------ *)
\* C35: a call of sync() is in flight exactly while isSyncing is set, so
\* every way out of sync() (success, a response that is not ok, a rejected
\* fetch, an exception in the merge) clears it; a call made meanwhile starts
\* no second flight, returns the error result, sends nothing and leaves the
\* local records as they are.
C35_OneSyncInFlight ==
    [][\A d \in Handlers :
          /\ (cpc'[d] = "idle") <=> ~isSyncing'[d]
          /\ (isSyncing[d] /\ ops' # ops) =>
                /\ cpc'[d] = cpc[d] /\ isSyncing'[d]
                /\ reply'[d] = reply[d] /\ found'[d] = found[d]
          /\ (ret'[d] = "busy" /\ ret[d] # "busy") =>
                /\ isSyncing[d]
                /\ local' = local /\ cards' = cards]_vars

\* a call was refused while a merge was under way
C35_Witness ==
    /\ ret[Phone] = "busy" /\ isSyncing[Phone]
    /\ cpc[Phone] = "apply" /\ found[Phone] # NoCard

\* C36: sync() changes lastSyncAt in one place, after the last card of the
\* delta has been merged, to the serverTime of the response; a call that
\* ends in the error result leaves lastSyncAt as it is.  The one other
\* writer is forceFullSync, which sets it to 0.
C36_WatermarkAfterMerge ==
    [][\A d \in Handlers :
          /\ lastSyncAt'[d] # lastSyncAt[d] =>
                \/ /\ cpc[d] = "merge" /\ reply[d].cards = << >>
                   /\ cpc'[d] = "idle" /\ ret'[d] = "ok"
                   /\ lastSyncAt'[d] = reply[d].serverTime
                \/ ops' # ops /\ lastSyncAt'[d] = 0
          /\ (cpc[d] # "idle" /\ cpc'[d] = "idle" /\ ret'[d] = "error") =>
                lastSyncAt'[d] = lastSyncAt[d]]_vars

\* a call has failed after it merged a card of a response with a later
\* serverTime
C36_Witness ==
    /\ ret[Phone] = "error" /\ cpc[Phone] = "idle"
    /\ lastSyncAt[Phone] = 0 /\ now > 0
    /\ \E r \in local[Phone] : r.name = "srv" /\ ToSeconds(r.updatedAt) = now

\* C37: no two local records share a syncId that is not empty, and a merge
\* leaves a local record as it is when its updatedAt, in seconds, is not
\* below the updatedAt of the server's version.
C37_MergeKeepsLocalEdits ==
    [][\A d \in Handlers :
          /\ \A r, q \in local'[d] :
                (r.syncId = q.syncId /\ r.syncId # "") => r = q
          /\ (cpc[d] = "apply" /\ cpc'[d] = "merge") =>
                \A r \in local[d] :
                    ( /\ r.syncId = Head(reply[d].cards).syncId
                      /\ ToSeconds(r.updatedAt) >= Head(reply[d].cards).updatedAt )
                    => r \in local'[d]]_vars

(* ------------------------- the EncryptionManager --------------------- *)
MasterPasswords == {"m1", "m2"}
\* generateSalt(): the values crypto.getRandomValues can give, two of them
SaltValues == {1, 2}
Plaintexts == {"4111", "737"}
NotUnlocked == "not unlocked"
OperationError == "OperationError"

arrayBufferToBase64(buffer) == <<"base64", buffer>>
base64ToArrayBuffer(base64) == base64[2]

\* PBKDF2: one key per password and salt
deriveKey(password, s) == [password |-> password, salt |-> s]
\* SHA-256 of password + base64(salt), taken as free of collisions
hashPassword(password, s) == <<"sha256", password, arrayBufferToBase64(s)>>

isUnlocked == key # NoKey

\* AES-GCM: the ciphertext opens under the key that made it, and no other
encrypt(plaintext, k) == [text |-> plaintext, key |-> k]
Ciphertexts ==
    { encrypt(t, deriveKey(w, s)) :
        t \in Plaintexts, w \in MasterPasswords, s \in SaltValues }

initialize(password, s) ==
    /\ salt' = s
    /\ key' = deriveKey(password, s)
    /\ vault' = vault \cup {[salt |-> arrayBufferToBase64(s),
                            passwordHash |-> hashPassword(password, s)]}
    /\ out' = [NoOut EXCEPT !.op = "initialize"]

unlock(password, saltBase64, expectedHash) ==
    LET s == base64ToArrayBuffer(saltBase64)
        actualHash == hashPassword(password, s)
    IN  /\ IF actualHash # expectedHash
             THEN /\ salt' = NoSalt
                  /\ key' = key
                  /\ out' = [NoOut EXCEPT !.op = "unlock", !.ok = FALSE]
             ELSE /\ salt' = s
                  /\ key' = deriveKey(password, s)
                  /\ out' = [NoOut EXCEPT !.op = "unlock"]
        /\ UNCHANGED vault

lock ==
    /\ key' = NoKey
    /\ out' = [NoOut EXCEPT !.op = "lock"]
    /\ UNCHANGED <<salt, vault>>

encryptString(plaintext) ==
    /\ out' = IF ~isUnlocked
                THEN [NoOut EXCEPT !.op = "encryptString", !.ok = FALSE,
                                   !.error = NotUnlocked]
                ELSE [NoOut EXCEPT !.op = "encryptString",
                                   !.text = plaintext, !.key = key]
    /\ UNCHANGED <<key, salt, vault>>

decryptString(ciphertext) ==
    /\ out' = IF ~isUnlocked
                THEN [NoOut EXCEPT !.op = "decryptString", !.ok = FALSE,
                                   !.error = NotUnlocked]
                ELSE IF ciphertext.key # key
                THEN [NoOut EXCEPT !.op = "decryptString", !.ok = FALSE,
                                   !.error = OperationError]
                ELSE [NoOut EXCEPT !.op = "decryptString",
                                   !.text = ciphertext.text]
    /\ UNCHANGED <<key, salt, vault>>

\* the manager under any sequence of calls; unlock is given a salt and a
\* hash that an initialize has returned
NextManager ==
    \/ /\ \E w \in MasterPasswords, s \in SaltValues : initialize(w, s)
       /\ UNCHANGED <<cards, uuidCount, now, hvars, gvars, rvars, cvars, avars,
                      mvars, bvars, svars, kvars, xvars, evars, dvars, binfo,
                      quiet>>
    \/ /\ \E w \in MasterPasswords, v \in vault :
             unlock(w, v.salt, v.passwordHash)
       /\ UNCHANGED <<cards, uuidCount, now, hvars, gvars, rvars, cvars, avars,
                      mvars, bvars, svars, kvars, xvars, evars, dvars, binfo,
                      quiet>>
    \/ /\ lock
       /\ UNCHANGED <<cards, uuidCount, now, hvars, gvars, rvars, cvars, avars,
                      mvars, bvars, svars, kvars, xvars, evars, dvars, binfo,
                      quiet>>
    \/ /\ \E t \in Plaintexts : encryptString(t)
       /\ UNCHANGED <<cards, uuidCount, now, hvars, gvars, rvars, cvars, avars,
                      mvars, bvars, svars, kvars, xvars, evars, dvars, binfo,
                      quiet>>
    \/ /\ \E c \in Ciphertexts : decryptString(c)
       /\ UNCHANGED <<cards, uuidCount, now, hvars, gvars, rvars, cvars, avars,
                      mvars, bvars, svars, kvars, xvars, evars, dvars, binfo,
                      quiet>>

SpecManager == Init /\ [][NextManager]_vars

\* C39: once unlock() has returned false the manager is locked: isUnlocked()
\* is false, and a call of encryptString or decryptString that follows
\* fails with the not-unlocked error.
C39_WrongPasswordLocks ==
    [][(out.op = "unlock" /\ ~out.ok) =>
          /\ ~isUnlocked
          /\ out'.op \in {"encryptString", "decryptString"} =>
                (~out'.ok /\ out'.error = NotUnlocked)]_vars

(* ------------------------- the next payment due date ----------------- *)
\* a Date is <<year, month, day, hour>> in local time
MaxDay == 28
FirstYear == 2024
RefMonths == {2, 12}
RefHour == 9
ElseWhen == <<2023, 6, 15, 9>>

IsLeap(y) == y % 4 = 0 /\ (y % 100 # 0 \/ y % 400 = 0)
DaysIn(y, mo) ==
    IF mo = 2 THEN (IF IsLeap(y) THEN 29 ELSE 28)
    ELSE IF mo \in {4, 6, 9, 11} THEN 30 ELSE 31

RECURSIVE DaysBefore(_, _)
\* the days from 1 January of FirstYear to the first of month mo of year y
DaysBefore(y, mo) ==
    IF y = FirstYear /\ mo = 1 THEN 0
    ELSE IF mo = 1 THEN DaysBefore(y - 1, 12) + DaysIn(y - 1, 12)
    ELSE DaysBefore(y, mo - 1) + DaysIn(y, mo - 1)
DayNo(date) == DaysBefore(date[1], date[2]) + date[3] - 1

startOfDay(date) == <<date[1], date[2], date[3], 0>>

isBefore(a, b) ==
    \/ a[1] < b[1]
    \/ a[1] = b[1] /\ a[2] < b[2]
    \/ a[1] = b[1] /\ a[2] = b[2] /\ a[3] < b[3]
    \/ a[1] = b[1] /\ a[2] = b[2] /\ a[3] = b[3] /\ a[4] < b[4]

\* isSameDay(date, Date.now())
isToday(date, clock) ==
    date[1] = clock[1] /\ date[2] = clock[2] /\ date[3] = clock[3]

addMonths(date, n) ==
    LET k == (date[1] * 12 + (date[2] - 1)) + n
        y == k \div 12
        mo == (k % 12) + 1
    IN  <<y, mo, Min(date[3], DaysIn(y, mo)), date[4]>>

\* Date.prototype.setDate: a day past the end of the month runs on into
\* the next month
setDate(date, day) ==
    IF day <= DaysIn(date[1], date[2])
      THEN <<date[1], date[2], day, date[4]>>
      ELSE LET nx == addMonths(<<date[1], date[2], 1, date[4]>>, 1)
           IN  <<nx[1], nx[2], day - DaysIn(date[1], date[2]), date[4]>>

\* full days from b to a, truncated towards zero
differenceInDays(a, b) ==
    LET n == DayNo(a) - DayNo(b)
    IN  IF n > 0 /\ a[4] < b[4] THEN n - 1
        ELSE IF n < 0 /\ a[4] > b[4] THEN n + 1
        ELSE n

getNextDateForDay(day, referenceDate, clock) ==
    LET today == startOfDay(referenceDate)
        targetDate == setDate(today, day)
    IN  IF isBefore(targetDate, today) \/ isToday(targetDate, clock)
          THEN addMonths(targetDate, 1)
          ELSE targetDate

getNextPaymentDueDate(billingDay, paymentDueDay, referenceDate, clock) ==
    LET today == startOfDay(referenceDate)
        nextBillingDate == getNextDateForDay(billingDay, referenceDate, clock)
        firstDate == setDate(nextBillingDate, paymentDueDay)
        paymentDate == IF paymentDueDay <= billingDay
                         THEN addMonths(firstDate, 1)
                         ELSE firstDate
        prevPaymentDate == addMonths(paymentDate, -1)
    IN  IF isBefore(today, prevPaymentDate) \/ isToday(prevPaymentDate, clock)
          THEN prevPaymentDate
          ELSE paymentDate

ReferenceDates ==
    UNION { { <<FirstYear, mo, d, RefHour>> : d \in 1..DaysIn(FirstYear, mo) } :
            mo \in RefMonths }

\* getBillingInfo takes the clock as the reference date; a caller of
\* getNextPaymentDueDate may name another reference date
BillingCall(billingDay, paymentDueDay, referenceDate, clock) ==
    /\ LET nextPaymentDueDate ==
               getNextPaymentDueDate(billingDay, paymentDueDay,
                                     referenceDate, clock)
       IN  binfo' = [pc |-> "called",
                     billingDay |-> billingDay,
                     paymentDueDay |-> paymentDueDay,
                     referenceDate |-> referenceDate,
                     clock |-> clock,
                     nextPaymentDueDate |-> nextPaymentDueDate,
                     daysUntilPayment |->
                         differenceInDays(nextPaymentDueDate,
                                          startOfDay(referenceDate))]

BillingReturn ==
    /\ binfo.pc = "called"
    /\ binfo' = NoInfo

NextBilling ==
    \/ /\ binfo.pc = "idle"
       /\ \E billingDay \in 1..MaxDay, paymentDueDay \in 1..MaxDay,
            referenceDate \in ReferenceDates :
             \E clock \in {referenceDate, ElseWhen} :
                BillingCall(billingDay, paymentDueDay, referenceDate, clock)
       /\ UNCHANGED <<cards, uuidCount, now, hvars, gvars, rvars, cvars, avars,
                      mvars, bvars, svars, kvars, xvars, evars, dvars, key,
                      salt, vault, out, quiet>>
    \/ /\ BillingReturn
       /\ UNCHANGED <<cards, uuidCount, now, hvars, gvars, rvars, cvars, avars,
                      mvars, bvars, svars, kvars, xvars, evars, dvars, key,
                      salt, vault, out, quiet>>

SpecBilling == Init /\ [][NextBilling]_vars

\* the earliest midnight on or after the day of the reference date whose day
\* of the month is day
EarliestOnOrAfter(day, referenceDate) ==
    LET today == startOfDay(referenceDate)
        dates == { <<y, mo, day, 0>> : y \in FirstYear..(FirstYear + 1),
                                       mo \in 1..12 }
        ahead == { x \in dates : ~isBefore(x, today) }
    IN  CHOOSE x \in ahead : \A z \in ahead : ~isBefore(z, x)

\* C40: for billingDay and paymentDueDay in 1..28 and every reference date,
\* getNextPaymentDueDate returns the earliest date on or after the reference
\* day whose day of the month is paymentDueDay, and daysUntilPayment is the
\* number of days from the reference day to it (0 when due that day).
C40_EarliestDueDate ==
    binfo.pc = "called" =>
        /\ binfo.nextPaymentDueDate =
               EarliestOnOrAfter(binfo.paymentDueDay, binfo.referenceDate)
        /\ binfo.daysUntilPayment =
               DayNo(binfo.nextPaymentDueDate) - DayNo(binfo.referenceDate)

(* ------------------------- two devices and the server ---------------- *)
MaxQuiet == 4

\* db.cards after sync() has given every record without syncId a generated one
Stamped(tbl, k) ==
    { IF r.syncId = ""
      THEN [r EXCEPT !.syncId = NewUuid(k + Cardinality(Before(tbl, r)))]
      ELSE r : r \in tbl }

\* one record of cardsToSync, as the server binds it
ToSync(r) ==
    [id |-> KeyNames[r.id], syncId |-> r.syncId, name |-> r.name,
     isDeleted |-> r.isDeleted, createdAt |-> ToSeconds(r.createdAt),
     updatedAt |-> ToSeconds(r.updatedAt)]

RECURSIVE cardsToSync(_)
\* db.cards.toArray() in the order of the primary key, in the sync format
cardsToSync(tbl) ==
    IF tbl = {} THEN << >>
    ELSE LET r == CHOOSE x \in tbl : \A y \in tbl : x.id <= y.id
         IN  <<ToSync(r)>> \o cardsToSync(tbl \ {r})

RECURSIVE UpsertAll(_, _)
\* the loop over req.Cards of syncCards; the error of upsertCard is dropped
UpsertAll(tbl, cs) ==
    IF cs = << >> THEN tbl
    ELSE UpsertAll(upsertCard(tbl, Head(cs)), Tail(cs))

\* mergeServerCard on store st, whose keys up to n are taken
MergeOne(st, n, sc) ==
    LET same == { r \in st : r.syncId = sc.syncId }
    IN  IF same = {}
          THEN [st |-> st \cup {Merged(sc, n + 1)}, n |-> n + 1]
          ELSE LET lc == CHOOSE r \in same : \A q \in same : r.id <= q.id
               IN  [st |-> IF sc.updatedAt > ToSeconds(lc.updatedAt)
                             THEN Updated(st, lc.id, Merged(sc, lc.id))
                             ELSE st,
                    n |-> n]

RECURSIVE MergeAll(_, _, _)
\* the loop over result.data.cards of sync()
MergeAll(st, n, cs) ==
    IF cs = << >> THEN [st |-> st, n |-> n]
    ELSE LET one == MergeOne(st, n, Head(cs))
         IN  MergeAll(one.st, one.n, Tail(cs))

\* a call of sync() on device d that runs to its end alone: the records are
\* stamped and sent with the stored lastSyncAt, syncCards stores them and
\* answers with the delta, the delta is merged, the serverTime is stored
DeviceSync(d) ==
    LET lacking == { r \in local[d] : r.syncId = "" }
        st == Stamped(local[d], uuidCount)
        tbl == UpsertAll(cards, cardsToSync(st))
    IN  /\ ~isSyncing[d]
        /\ Len(quiet) < MaxQuiet
        /\ uuidCount + Cardinality(lacking) <= MaxUuid
        /\ \E delta \in getCardsSince(tbl, lastSyncAt[d]) :
              LET merged == MergeAll(st, nextId[d], delta)
              IN  /\ merged.n <= Len(KeyNames)
                  /\ local' = [local EXCEPT ![d] = merged.st]
                  /\ nextId' = [nextId EXCEPT ![d] = merged.n]
        /\ cards' = tbl
        /\ uuidCount' = uuidCount + Cardinality(lacking)
        /\ lastSyncAt' = [lastSyncAt EXCEPT ![d] = now]
        /\ quiet' = Append(quiet, d)
        /\ ret' = [ret EXCEPT ![d] = "ok"]
        /\ UNCHANGED <<isSyncing, cpc, reply, found>>

\* lastSyncAt = 0 stands for "never synced": the devices run at a later second
NextDevices ==
    \/ /\ Tick
       /\ UNCHANGED <<cards, uuidCount, hvars, gvars, rvars, cvars, avars,
                      mvars, bvars, svars, kvars, xvars, evars, dvars, uvars>>
    \/ /\ now > 0
       /\ \E d \in Handlers : useCardsAdd(d, 0)
       /\ Rest
       /\ quiet' = << >>
       /\ UNCHANGED <<cards, uuidCount, gvars, rvars, cvars, avars, mvars,
                      bvars, svars, kvars, xvars, evars, isSyncing, cpc,
                      reply, found, ret, key, salt, vault, out, binfo>>
    \/ /\ now > 0
       /\ \E d \in Handlers, id \in 1..Len(KeyNames) : useCardsUpdate(d, id, 0)
       /\ Rest
       /\ quiet' = << >>
       /\ UNCHANGED <<cards, uuidCount, gvars, rvars, cvars, avars, mvars,
                      bvars, svars, kvars, xvars, evars, isSyncing, cpc,
                      reply, found, ret, key, salt, vault, out, binfo>>
    \/ /\ now > 0
       /\ \E d \in Handlers : DeviceSync(d)
       /\ UNCHANGED <<now, hvars, gvars, rvars, began, owed, due, avars, mvars,
                      bvars, svars, kvars, xvars, evars, key, salt, vault, out,
                      binfo>>

SpecDevices == Init /\ [][NextDevices]_vars

\* what the stores compare of a record: content, flag, updatedAt in seconds
ServerVersions(s) ==
    { <<r.name, r.isDeleted, r.updatedAt>> : r \in { x \in cards : x.syncId = s } }
LocalVersions(d, s) ==
    { <<r.name, r.isDeleted, ToSeconds(r.updatedAt)>> :
        r \in { x \in local[d] : x.syncId = s } }

\* no edit since the last four completed syncs, which the two devices made
\* in turn: each device has synced after a sync of the other, twice
Settled ==
    /\ Len(quiet) >= 4
    /\ \A i \in (Len(quiet) - 3)..(Len(quiet) - 1) : quiet[i] # quiet[i + 1]

\* C38: once the edits have stopped and the devices have synced in turn,
\* with their stored watermarks, the two local stores and the server's table
\* hold one and the same version of every syncId any of them knows, the one
\* with the largest updatedAt.
C38_DevicesConverge ==
    Settled =>
        \A s \in (SyncIdsOf(local["A"]) \cup SyncIdsOf(local["B"])
                    \cup SyncIdsOf(cards)) \ {""} :
            \E v \in ServerVersions(s) :
                /\ ServerVersions(s) = {v}
                /\ LocalVersions("A", s) = {v}
                /\ LocalVersions("B", s) = {v}

====
